---- MODULE Spec2Model ----
(***************************************************************************)
(* QFlow QA agent (src/src/qaAgent.ts): the Bug Ledger, the oracle channel *)
(* (Gemini), the oracle-steered exploration loop and main's phase          *)
(* sequence, as state machines.                                            *)
(*                                                                         *)
(* Strings the claims look into (bug ids) are sequences of one-character   *)
(* strings; the other strings are opaque tokens.  Time is in seconds.      *)
(***************************************************************************)
EXTENDS Integers, Sequences, FiniteSets, TLC

\* ------------------------------------------------------------------ bounds
\* commits made in one run of the ledger specification
MaxCommits == 11
\* listener events delivered in one run of the ledger specification
MaxEvents == 2

NULL == "null"

VARIABLES
  bugs,             \* const bugs: BugEntry[]
  consoleErrors,    \* const consoleErrors: string[]
  consoleWarnings,  \* const consoleWarnings: string[]
  pageErrors,       \* const pageErrors: string[]
  failedRequests,   \* const failedRequests: FailedRequest[]
  ledgerPc,         \* where the committing coroutine is suspended
  commit,           \* the locals of the suspended commit (id, opts)
  shotFailed,       \* history: the screenshot of the latest commit failed
  heard,            \* history: a listener fired while a commit was suspended
  envKey,           \* process.env.GEMINI_API_KEY
  geminiModel,      \* let geminiModel: GenerativeModel | null
  geminiVisionModel,\* let geminiVisionModel: GenerativeModel | null
  now,              \* Date.now(), in seconds
  lastLLMCall,      \* let lastLLMCall
  oc,               \* the locals of the oracle call in progress
  calls,            \* history: oracle calls begun
  lastReqAt,        \* history: when the latest request to the service started
  reqGap,           \* history: time between the latest two requests
  act,              \* one call of executeLLMAction: its inputs and its result
  pc,               \* where main (and the exploration loop it awaits) stands
  exitCode,         \* process.exitCode
  url,              \* the answer to ask('Target URL')
  response,         \* main's `response`: the status of the first navigation
  browser,          \* the Chromium instance: "none", "open" or "closed"
  site,             \* the page under test: its targets and where it has issues
  service,          \* the oracle service: "up" or "down"
  workflowResults,  \* const workflowResults: WorkflowResult[]
  reportWritten,    \* the report file exists
  faultBy,          \* history: what raised the fault main's catch handled
  trace,            \* history: the phases of main that ran, in order
  oracleContacted,  \* history: a request was sent to the oracle service
  i,                \* the loop counter of llmAutonomousExploration
  consecutiveDone,  \* let consecutiveDone
  action,           \* const action = await getNextTestAction(...)
  result,           \* const result = await executeLLMAction(...)
  planText,         \* history: the text the latest PLAN query returned
  plans,            \* history: action.action of every plan, in order
  planQueries,      \* history: PLAN queries issued
  actsExecuted,     \* history: calls of executeLLMAction
  loopEnd,          \* history: how the for loop was left
  maxIterations,    \* the parameter maxIterations of llmAutonomousExploration
  dom,              \* the widgets of the page the per-target workflows find
  wf,               \* testDropdownsAndTabs / testWalletFlow: position, issues
  kb,               \* testKeyboardNav: the page's focus order, the locals
  reports,          \* history: the report texts written, in order
  anchors,          \* the a[href] elements of the page and what HEAD answers
  bl,               \* checkBrokenLinks: position, unique, broken, requests sent
  page,             \* the origin the page is on: "base" or "other"
  turn,             \* the loop's turn: error snapshot, delta, return to base
  scans,            \* host server: the ids in the Map scans, in insertion order
  scan,             \* host server: the ScanState object of each scan created
  children,         \* host server: the agent child process of each scan
  posts,            \* host server: the POST /api/scan handlers, by arrival
  cancels           \* host server: the answered cancel requests

ledgerVars == <<bugs, ledgerPc, commit, shotFailed, heard>>
accVars == <<consoleErrors, consoleWarnings, pageErrors, failedRequests>>
keyVars == <<envKey, geminiModel, geminiVisionModel>>
chanVars == <<now, lastLLMCall, oc, calls, lastReqAt, reqGap>>
actVars == <<act>>
runVars == <<pc, exitCode, url, response, browser, site, service,
             workflowResults, reportWritten, faultBy, trace, oracleContacted>>
loopVars == <<i, consecutiveDone, action, result, planText, plans,
              planQueries, actsExecuted, loopEnd, page, turn>>
widgetVars == <<dom, wf, kb>>
linkVars == <<anchors, bl>>
serverVars == <<scans, scan, children, posts, cancels>>
notLedger == <<keyVars, chanVars, actVars, runVars, loopVars, maxIterations,
               widgetVars, reports, linkVars,
               serverVars>>
notChannel == <<ledgerVars, accVars, keyVars, actVars, runVars, loopVars,
                maxIterations, widgetVars, reports, linkVars,
               serverVars>>
notAct == <<ledgerVars, accVars, keyVars, chanVars, runVars, loopVars,
            maxIterations, widgetVars, reports, linkVars,
               serverVars>>
\* what no step of main touches, writeReport apart
notRun == <<ledgerPc, commit, shotFailed, heard, chanVars, actVars, envKey,
            url, site, service, maxIterations, widgetVars, linkVars,
            serverVars>>
notMain == <<notRun, reports>>

\* ------------------------------------------------------------- text helpers
Digits == <<"0", "1", "2", "3", "4", "5", "6", "7", "8", "9">>

\* String(n) for a non-negative integer
RECURSIVE StringOf(_)
StringOf(n) ==
  IF n < 10 THEN <<Digits[n + 1]>>
  ELSE StringOf(n \div 10) \o <<Digits[(n % 10) + 1]>>

\* s.padStart(len, fill) with a one-character fill
RECURSIVE PadStart(_, _, _)
PadStart(s, len, fill) ==
  IF Len(s) >= len THEN s ELSE PadStart(<<fill>> \o s, len, fill)

\* `BUG-${String(n).padStart(3, '0')}`
\* s.slice(0, n)
FirstN(s, n) == SubSeq(s, 1, IF Len(s) < n THEN Len(s) ELSE n)

BugIdOf(n) == <<"B", "U", "G", "-">> \o PadStart(StringOf(n), 3, "0")

NextBugIdStale(ledger) == BugIdOf(Len(ledger))
\* the id a commit allocates: `BUG-${String(bugs.length + 1).padStart(3, '0')}`
NextBugId(ledger) == BugIdOf(Len(ledger) + 1)

\* ---------------------------------------------------------- evidence capture
TakeScreenshotThrows(label, ok) ==
  [thrown |-> ~ok, path |-> <<"screenshots/", label, ".png">>]
\* takeScreenshot: page.screenshot(...).catch(() => {}) swallows a failed
\* capture; the relative path is returned either way.
TakeScreenshot(label, ok) ==
  [thrown |-> FALSE, path |-> <<"screenshots/", label, ".png">>]

\* the record addBug pushes
BugEntry(id, opts, shot) ==
  LET entry == [id |-> id, title |-> opts.title, severity |-> opts.severity,
                category |-> opts.category, evidence |-> <<shot>>]
  IN IF "details" \in DOMAIN opts
       THEN [f \in DOMAIN entry \cup {"details"} |->
               IF f = "details" THEN opts.details ELSE entry[f]]
     ELSE entry

\* opts of the commits the ledger specification makes
LedgerOpts ==
  { [title |-> <<"", "console error(s)">>, severity |-> "High",
     category |-> "Console", evidenceLabel |-> "console-errors"] }

ResponsiveOpts ==
  [title |-> <<"", "responsive design issue(s)">>, severity |-> "Medium",
   category |-> "Layout", evidenceLabel |-> "responsive-mobile"]

\* ------------------------------------------------------------------ listeners
EventTexts == {"e1", "e2"}

Events == Len(consoleErrors) + Len(consoleWarnings) + Len(pageErrors)
            + Len(failedRequests)

Suspended == ledgerPc # "idle"

Overwritten(list, entry) == <<entry>>
\* list.push(entry)
Pushed(list, entry) == Append(list, entry)

\* page.on('console'): errors and warnings are kept, other types dropped
OnConsole ==
  /\ Events < MaxEvents
  /\ \E type \in {"error", "warning", "log"}, text \in EventTexts :
       /\ consoleErrors' =
            IF type = "error" THEN Pushed(consoleErrors, text) ELSE consoleErrors
       /\ consoleWarnings' =
            IF type = "warning" THEN Pushed(consoleWarnings, text)
            ELSE consoleWarnings
       /\ heard' = (heard \/ (Suspended /\ type # "log"))
  /\ UNCHANGED <<pageErrors, failedRequests, bugs, ledgerPc, commit, shotFailed>>
  /\ UNCHANGED notLedger

\* page.on('pageerror')
OnPageError ==
  /\ Events < MaxEvents
  /\ \E text \in EventTexts : pageErrors' = Pushed(pageErrors, text)
  /\ heard' = (heard \/ Suspended)
  /\ UNCHANGED <<consoleErrors, consoleWarnings, failedRequests, bugs, ledgerPc,
                 commit, shotFailed>>
  /\ UNCHANGED notLedger

\* page.on('requestfailed')
OnRequestFailed ==
  /\ Events < MaxEvents
  /\ failedRequests' =
       Pushed(failedRequests,
              [url |-> "u", method |-> "GET", resourceType |-> "fetch",
               failure |-> "net"])
  /\ heard' = (heard \/ Suspended)
  /\ UNCHANGED <<consoleErrors, consoleWarnings, pageErrors, bugs, ledgerPc,
                 commit, shotFailed>>
  /\ UNCHANGED notLedger

\* page.on('response'): only a status >= 400 is recorded
OnResponse ==
  /\ Events < MaxEvents
  /\ \E st \in {200, 404, 500} :
       /\ failedRequests' =
            IF st >= 400
              THEN Pushed(failedRequests,
                          [url |-> "u", method |-> "GET",
                           resourceType |-> "fetch", status |-> st])
            ELSE failedRequests
       /\ heard' = (heard \/ (Suspended /\ st >= 400))
  /\ UNCHANGED <<consoleErrors, consoleWarnings, pageErrors, bugs, ledgerPc,
                 commit, shotFailed>>
  /\ UNCHANGED notLedger

Listeners == OnConsole \/ OnPageError \/ OnRequestFailed \/ OnResponse

\* --------------------------------------------------------------------- addBug
\* addBug up to its await: the id is allocated, the screenshot is started
AddBugBegin ==
  /\ ledgerPc = "idle"
  /\ Len(bugs) < MaxCommits
  /\ \E opts \in LedgerOpts :
       commit' = [id |-> NextBugId(bugs), opts |-> opts]
  /\ ledgerPc' = "addBug"
  /\ UNCHANGED <<bugs, shotFailed, heard>>
  /\ UNCHANGED accVars
  /\ UNCHANGED notLedger

\* addBug after its await: the screenshot settled (ok or not), the record is
\* pushed.  A capture that threw would leave addBug without pushing.
AddBugResume ==
  /\ ledgerPc = "addBug"
  /\ \E ok \in BOOLEAN :
       LET shot == TakeScreenshot(<<commit.id, commit.opts.evidenceLabel>>, ok)
       IN /\ bugs' = IF shot.thrown THEN bugs
                     ELSE Append(bugs, BugEntry(commit.id, commit.opts, shot.path))
          /\ shotFailed' = ~ok
  /\ ledgerPc' = "idle"
  /\ commit' = NULL
  /\ UNCHANGED heard
  /\ UNCHANGED accVars
  /\ UNCHANGED notLedger

\* checkResponsive, issues found: the screenshot of the mobile page is started
ResponsiveBegin ==
  /\ ledgerPc = "idle"
  /\ Len(bugs) < MaxCommits
  /\ \A k \in 1..Len(bugs) : bugs[k].category # "Layout"
  /\ ledgerPc' = "responsive"
  /\ commit' = [opts |-> ResponsiveOpts]
  /\ UNCHANGED <<bugs, shotFailed, heard>>
  /\ UNCHANGED accVars
  /\ UNCHANGED notLedger

\* checkResponsive after its await: the id is allocated and the record pushed
\* in one synchronous stretch
ResponsiveResume ==
  /\ ledgerPc = "responsive"
  /\ \E ok \in BOOLEAN :
       LET shot == TakeScreenshot(commit.opts.evidenceLabel, ok)
       IN /\ bugs' = IF shot.thrown THEN bugs
                     ELSE Append(bugs, BugEntry(NextBugId(bugs), commit.opts, shot.path))
          /\ shotFailed' = ~ok
  /\ ledgerPc' = "idle"
  /\ commit' = NULL
  /\ UNCHANGED heard
  /\ UNCHANGED accVars
  /\ UNCHANGED notLedger

\* ===================================================== the oracle channel
LLM_MIN_DELAY == 7
\* the fixed backoff before the one retry: setTimeout(r, 15_000)
RATE_LIMIT_BACKOFF == 15
\* how far the clock of the channel specification runs
MaxTime == 24
\* oracle calls made in one run of the channel specification
MaxCalls == 2

UNSET == "unset"
NoTime == 0 - 1

GEMINI_API_KEY_Fallback == IF envKey = UNSET THEN "AIza-builtin" ELSE envKey
\* const GEMINI_API_KEY = process.env.GEMINI_API_KEY ?? ''
GEMINI_API_KEY == IF envKey = UNSET THEN "" ELSE envKey

\* const LLM_ENABLED = !!GEMINI_API_KEY
LLM_ENABLED == GEMINI_API_KEY # ""

\* initGemini: both models exist exactly when a key is configured
InitGeminiText == IF GEMINI_API_KEY = "" THEN NULL ELSE "gemini-2.5-flash-lite"
InitGeminiVision == IF GEMINI_API_KEY = "" THEN NULL ELSE "gemini-2.5-flash"

\* the messages of the faults a request, or the file read before it, raises
RequestErrors ==
  {"[429 Too Many Requests]", "RESOURCE_EXHAUSTED: quota", "fetch failed",
   "[500 Internal Server Error]"}
ReadErrors == {"ENOENT: no such file or directory"}

IsRateLimitAny(msg) == TRUE
\* msg.includes('429') || msg.includes('RESOURCE_EXHAUSTED')
IsRateLimit(msg) ==
  msg \in {"[429 Too Many Requests]", "RESOURCE_EXHAUSTED: quota"}

\* what the service answers to one request: a text, or a fault with a message
\* a text is a sequence of tokens; the empty text is the empty sequence
EmptyText == <<>>
ServiceTexts == {<<[t |-> "prose"]>>}
Outcomes ==
  [ok : {TRUE}, text : ServiceTexts] \cup [ok : {FALSE}, msg : RequestErrors]

\* reqs, reqErr and lastOk are history: the requests this call sent, the
\* message its first request failed with, whether its latest step succeeded
IdleCall ==
  [pc |-> "idle", kind |-> "none", reqs |-> 0, reqErr |-> "none",
   wakeAt |-> NoTime, caughtAt |-> NoTime, lastOk |-> TRUE, ret |-> EmptyText,
   thrown |-> FALSE]

\* the model a call uses: askGemini the text model, askGeminiVision
\* geminiVisionModel || geminiModel
ModelOf(kind) ==
  IF kind = "text" THEN geminiModel
  ELSE IF geminiVisionModel # NULL THEN geminiVisionModel ELSE geminiModel

\* a second passes (bounded by MaxTime); reading the screenshot file takes
\* well under a second, so none passes while a call is suspended on it
Tick ==
  /\ now < MaxTime
  /\ oc.pc # "read"
  /\ now' = now + 1
  /\ UNCHANGED <<lastLLMCall, oc, calls, lastReqAt, reqGap>>
  /\ UNCHANGED notChannel

\* a request leaves for the service
Sent(c) ==
  /\ lastReqAt' = now
  /\ reqGap' = IF lastReqAt = NoTime THEN NoTime ELSE now - lastReqAt
  /\ oc' = [c EXCEPT !.reqs = @ + 1]

\* throttleLLM after its wait: lastLLMCall = Date.now(); askGemini then sends
\* at once, askGeminiVision first reads the screenshot file
Stamped(c) ==
  /\ lastLLMCall' = now
  /\ IF c.kind = "text"
       THEN Sent([c EXCEPT !.pc = "inflight"])
       ELSE /\ oc' = [c EXCEPT !.pc = "read"]
            /\ UNCHANGED <<lastReqAt, reqGap>>

\* askGemini / askGeminiVision up to the first await
CallBegin ==
  /\ oc.pc \in {"idle", "returned"}
  /\ calls < MaxCalls
  /\ calls' = calls + 1
  /\ \E kind \in {"text", "vision"} :
       LET c == [IdleCall EXCEPT !.kind = kind]
       IN IF ModelOf(kind) = NULL
            THEN /\ oc' = [c EXCEPT !.pc = "returned", !.ret = EmptyText]
                 /\ UNCHANGED <<lastLLMCall, lastReqAt, reqGap>>
            ELSE IF now - lastLLMCall < LLM_MIN_DELAY
              THEN /\ oc' = [c EXCEPT !.pc = "throttle",
                                      !.wakeAt = now + (LLM_MIN_DELAY - (now - lastLLMCall))]
                   /\ UNCHANGED <<lastLLMCall, lastReqAt, reqGap>>
              ELSE Stamped(c)
  /\ UNCHANGED now
  /\ UNCHANGED notChannel

\* the throttle's timer fired
ThrottleWake ==
  /\ oc.pc = "throttle"
  /\ now >= oc.wakeAt
  /\ Stamped([oc EXCEPT !.wakeAt = NoTime])
  /\ UNCHANGED <<now, calls>>
  /\ UNCHANGED notChannel

\* what the outer catch does with a fault raised at time `now`
Caught(c, msg) ==
  IF IsRateLimit(msg)
    THEN [c EXCEPT !.pc = "backoff", !.caughtAt = now,
                   !.wakeAt = now + RATE_LIMIT_BACKOFF]
    ELSE [c EXCEPT !.pc = "returned", !.ret = EmptyText]

\* askGeminiVision: fs.readFile before the first request settles
ReadFile ==
  /\ oc.pc = "read"
  /\ \/ Sent([oc EXCEPT !.pc = "inflight"])
     \/ /\ \E msg \in ReadErrors : oc' = Caught([oc EXCEPT !.lastOk = FALSE], msg)
        /\ UNCHANGED <<lastReqAt, reqGap>>
  /\ UNCHANGED <<now, lastLLMCall, calls>>
  /\ UNCHANGED notChannel

\* the first request settles
FirstSettles ==
  /\ oc.pc = "inflight"
  /\ \E o \in Outcomes :
       oc' = IF o.ok THEN [oc EXCEPT !.pc = "returned", !.ret = o.text]
             ELSE Caught([oc EXCEPT !.lastOk = FALSE, !.reqErr = o.msg], o.msg)
  /\ UNCHANGED <<now, lastLLMCall, calls, lastReqAt, reqGap>>
  /\ UNCHANGED notChannel

\* the inner catch: catch { return ''; }
RetryFailed(c) ==
  [c EXCEPT !.pc = "returned", !.ret = EmptyText, !.wakeAt = NoTime,
            !.caughtAt = NoTime]

\* the backoff timer fired: the one retry is sent (askGeminiVision reads the
\* file again first, and a failed read ends the call like a failed retry)
BackoffWake ==
  /\ oc.pc = "backoff"
  /\ now >= oc.wakeAt
  /\ \/ Sent([oc EXCEPT !.pc = "inflight2", !.wakeAt = NoTime,
                        !.caughtAt = NoTime, !.lastOk = TRUE])
     \/ /\ oc.kind = "vision"
        /\ oc' = RetryFailed([oc EXCEPT !.lastOk = FALSE])
        /\ UNCHANGED <<lastReqAt, reqGap>>
  /\ UNCHANGED <<now, lastLLMCall, calls>>
  /\ UNCHANGED notChannel

\* the retry settles
RetrySettles ==
  /\ oc.pc = "inflight2"
  /\ \E o \in Outcomes :
       oc' = IF o.ok THEN [oc EXCEPT !.pc = "returned", !.ret = o.text]
             ELSE RetryFailed([oc EXCEPT !.lastOk = FALSE])
  /\ UNCHANGED <<now, lastLLMCall, calls, lastReqAt, reqGap>>
  /\ UNCHANGED notChannel

ChannelStep ==
  \/ Tick
  \/ CallBegin
  \/ ThrottleWake
  \/ ReadFile
  \/ FirstSettles
  \/ BackoffWake
  \/ RetrySettles

\* ===================================================== executeLLMAction
\* a field of a parsed object; an absent field reads as undefined (falsy)
Has(o, f) == f \in DOMAIN o
Field(o, f) == IF Has(o, f) THEN o[f] ELSE ""

ActionKinds == {"click", "fill", "scroll", "hover", "navigate", "press_key", "done"}

\* the driver call on a located element settles ok only on a visible
\* element; on a missing or hidden one it waits and times out
OnTarget(w) == IF w.target = "visible" THEN w.driver ELSE "timeout"

Returned(desc, err, js) ==
  [thrown |-> FALSE, description |-> desc, error |-> err, jsErrors |-> js]
Thrown(msg) == [thrown |-> TRUE, message |-> msg]

\* action.text || action.selector
TargetOf(a) == IF Field(a, "text") # "" THEN a.text ELSE Field(a, "selector")

\* the switch inside the try block: the record it returns, or the fault a
\* driver call raises.  w.target says whether the addressed element is
\* missing, hidden or visible, w.driver how an attempted driver call
\* settles, delta how many uncaught exceptions the page raised meanwhile.
ActionBody(a, w, delta) ==
  LET kind == Field(a, "action")
      located == TargetOf(a) # ""
      \* locator.isVisible().catch(() => false)
      visible == w.target = "visible"
  IN CASE kind = "click" ->
            IF ~located THEN Returned(<<"No target for click">>, TRUE, 0)
            ELSE IF ~visible THEN Returned(<<"Element not visible", TargetOf(a)>>, TRUE, 0)
            ELSE IF OnTarget(w) # "ok" THEN Thrown(OnTarget(w))
            ELSE Returned(<<"Clicked", TargetOf(a)>>, FALSE, delta)
       [] kind = "fill" ->
            IF ~located THEN Returned(<<"No target for fill">>, TRUE, 0)
            ELSE IF ~visible THEN Returned(<<"Input not visible", TargetOf(a)>>, TRUE, 0)
            ELSE IF OnTarget(w) # "ok" THEN Thrown(OnTarget(w))
            ELSE Returned(<<"Filled", TargetOf(a), Field(a, "value")>>, FALSE, delta)
       [] kind = "scroll" ->
            IF w.driver # "ok" THEN Thrown(w.driver)
            ELSE Returned(<<"Scrolled down 600px">>, FALSE, delta)
       [] kind = "hover" ->
            IF ~located THEN Returned(<<"No target for hover">>, TRUE, 0)
            ELSE IF OnTarget(w) # "ok" THEN Thrown(OnTarget(w))
            ELSE Returned(<<"Hovered", TargetOf(a)>>, FALSE, delta)
       [] kind = "navigate" ->
            IF Field(a, "url") = "" THEN Returned(<<"No URL for navigate">>, TRUE, 0)
            ELSE IF w.driver # "ok" THEN Thrown(w.driver)
            ELSE Returned(<<"Navigated to", a.url>>, FALSE, delta)
       [] kind = "press_key" ->
            IF w.driver # "ok" THEN Thrown(w.driver)
            ELSE Returned(<<"Pressed key", IF Field(a, "key") # "" THEN a.key ELSE "Enter">>,
                          FALSE, delta)
       [] kind = "done" ->
            Returned(<<"LLM decided testing is complete">>, FALSE, 0)
       [] OTHER ->
            Returned(<<"Unknown action", kind>>, TRUE, 0)

ExecuteLLMActionUncaught(a, w, delta) == ActionBody(a, w, delta)
\* executeLLMAction: the catch turns a fault of the body into an outcome
ExecuteLLMAction(a, w, delta) ==
  LET r == ActionBody(a, w, delta)
  IN IF r.thrown
       THEN Returned(<<"Action failed", r.message>>, TRUE, delta)
       ELSE r

\* the worlds and action records executeLLMAction is applied to
Worlds == [target : {"missing", "hidden", "visible"}, driver : {"ok", "raise", "timeout"}]

ActionRecords ==
  { [action |-> k, text |-> t, selector |-> sel, url |-> u, reasoning |-> "r"] :
      k \in ActionKinds \cup {"tap"}, t \in {"", "Buy"}, sel \in {"", "#buy"},
      u \in {"", "https://site/x"} }

NotRun == [thrown |-> FALSE, description |-> <<>>, error |-> FALSE, jsErrors |-> 0]

ActIdle == act = [phase |-> "idle"]

ActInit ==
  \E a \in ActionRecords, w \in Worlds, delta \in 0..1 :
    act = [phase |-> "called", action |-> a, world |-> w, delta |-> delta]

\* the call runs to its end
ExecuteStep ==
  /\ act.phase = "called"
  /\ act' = [act EXCEPT !.phase = "settled"] @@
              [result |-> ExecuteLLMAction(act.action, act.world, act.delta)]
  /\ UNCHANGED notAct

\* ================================================== what the oracle answers
\* A text is a sequence of tokens: an opening ```json fence, a bare ``` fence,
\* prose, or the text of one JSON value.
FenceJson == [t |-> "fence-json"]
Fence == [t |-> "fence"]
Prose == [t |-> "prose"]
Json(v) == [t |-> "json", v |-> v]

\* JSON values: null, or an object with the fields it carries
JNull == [k |-> "null"]
Obj(o) == [k |-> "object", o |-> o]

\* raw.replace(/```json\s*\n?/g, '').replace(/```\s*$/g, '').trim(): every
\* opening ```json fence goes, and one ``` at the very end
StripFences(raw) ==
  LET noOpen == SelectSeq(raw, LAMBDA tok : tok.t # "fence-json")
  IN IF Len(noOpen) > 0 /\ noOpen[Len(noOpen)].t = "fence"
       THEN SubSeq(noOpen, 1, Len(noOpen) - 1)
       ELSE noOpen

\* JSON.parse: succeeds on the text of exactly one JSON value, whatever the
\* value is; throws on anything else, the empty text included
JsonParse(cleaned) ==
  IF Len(cleaned) = 1 /\ cleaned[1].t = "json"
    THEN [ok |-> TRUE, v |-> cleaned[1].v]
    ELSE [ok |-> FALSE]

\* no plan has been received yet
NoAction == [k |-> "none"]

DonePlan(why) == Obj([action |-> "done", reasoning |-> why])

\* getNextTestAction, given the text askGeminiVision returned
GetNextTestAction(raw) ==
  LET p == JsonParse(StripFences(raw))
  IN IF p.ok THEN p.v ELSE DonePlan("Could not parse LLM response")

NoBugs == Obj([bugs |-> <<>>])

\* evaluateActionResult and analyzeScreenshotForBugs, given the text
ParseBugs(raw) ==
  LET p == JsonParse(StripFences(raw))
  IN IF p.ok THEN p.v ELSE NoBugs

\* the PLAN answers the service gives
PlanValues ==
  { Obj([action |-> "click", selector |-> "#buy", reasoning |-> "r"]),
    Obj([action |-> "done", reasoning |-> "r"]),
    Obj([action |-> "click", selector |-> "#buy"]),
    Obj([action |-> "tap", reasoning |-> "r"]),
    JNull }

PlanTexts ==
  { <<Json(v)>> : v \in PlanValues } \cup
  { <<FenceJson, Json(Obj([action |-> "click", selector |-> "#buy", reasoning |-> "r"])), Fence>>,
    <<Prose>> }

\* the bug candidates a JUDGE or visual answer lists
KnownCandidate == [title |-> "t", severity |-> "High", category |-> "UX"]
OddCandidate == [title |-> "t", severity |-> "Blocker", category |-> "Visual"]

BugsValues ==
  { NoBugs, Obj([bugs |-> <<KnownCandidate>>]), Obj([bugs |-> <<OddCandidate>>]),
    Obj([verdict |-> "ok"]), JNull }

BugsTexts == { <<Json(v)>> : v \in BugsValues } \cup { <<Prose, Json(NoBugs)>> }

\* the texts of a steady service: it answers every request, with a
\* well-formed plan or list of candidates
SteadyTexts ==
  { <<Json(Obj([action |-> "click", selector |-> "#buy", reasoning |-> "r"]))>>,
    <<Json(Obj([action |-> "done", reasoning |-> "r"]))>>,
    <<Json(NoBugs)>>,
    <<Json(Obj([bugs |-> <<KnownCandidate>>]))>> }

\* what a call of askGemini / askGeminiVision returns to its caller: the
\* empty text without a model or when the request (and its retry) fails,
\* else the service's text
Replies(kind, texts) ==
  IF ModelOf(kind) = NULL \/ service = "down" THEN {EmptyText}
  ELSE IF service = "steady" THEN texts \cap SteadyTexts
  ELSE texts \cup {EmptyText}

\* the call sent a request
Asked(kind) == ModelOf(kind) # NULL

\* ============================================================== main's run
Detectors ==
  <<"checkSEO", "checkAccessibility", "checkBrokenImages", "checkBrokenLinks",
    "checkSecurityHeaders", "checkPerformance", "checkLayout",
    "checkInteractiveElements", "checkWebAppIssues", "checkClickability",
    "checkResponsive">>

\* the deterministic workflows, in the order main awaits them
Workflows ==
  <<"crawlSitePages", "testNavigationWorkflows", "testFormWorkflows",
    "testModals", "testDropdownsAndTabs", "testWalletFlow",
    "testHoverInteractions", "testKeyboardNav", "testScrollInteractions">>

\* the workflows that record one result however many targets the page has
FixedWorkflows == {"crawlSitePages", "testKeyboardNav", "testScrollInteractions"}

MainOrder ==
  <<"initGemini", "askUrl", "launch", "navigate", "settle">> \o Detectors \o
  <<"llm">> \o Workflows \o
  <<"checkConsoleErrors", "checkNetworkFailures", "writeReport", "close">>

Range(s) == { s[k] : k \in 1..Len(s) }
IndexOf(s, x) == CHOOSE k \in 1..Len(s) : s[k] = x

\* the phase main awaits after phase p
After(p) ==
  IF IndexOf(MainOrder, p) = Len(MainOrder) THEN "finally"
  ELSE MainOrder[IndexOf(MainOrder, p) + 1]

LoopPcs == {"understand", "plan", "act", "judge", "finalVisual"}

\* phases with a driver or file-system call outside any try/catch
Fallible ==
  (Range(MainOrder) \cup LoopPcs) \ {"initGemini", "askUrl", "navigate", "llm"}

NoResponse == 0

\* ----------------------------------------------------------- the run's inputs
MaxIssues == 1
MaxTargets == 1
\* the largest maxIterations the loop is run with on its own, and the value
\* main's run passes (main passes 20)
MaxIterations == 3
MainIterations == 2
MaxReportBugs == 2
MaxReports == 2
MaxReportGap == 1
MaxLinks == 32
MaxScanRequests == 3
MaxClasses == 2
\* the focusable elements of the page testKeyboardNav runs on, and the
\* length of its focus order
MaxElements == 3
MaxRing == 3
MaxEach == 2
MaxCancels == 1

IssuePhases ==
  Range(Detectors) \cup Range(Workflows) \cup
  {"checkConsoleErrors", "checkNetworkFailures"}

\* a page: the status of its first navigation (NoResponse: the navigation
\* timed out), how many targets each per-target workflow exercises to the
\* end (for the crawler: how many internal pages it visits), and the phases
\* that find something wrong with it, whether it is lively (see
\* LivelySite), how many of its classes of issue a detector that finds
\* something finds, and how many issues of each class
RECURSIVE IssueSets(_)
IssueSets(n) ==
  IF n = 0 THEN {{}}
  ELSE IssueSets(n - 1) \cup
       { s \cup {p} : s \in IssueSets(n - 1), p \in IssuePhases }

Sites ==
  [status : {NoResponse, 200, 404, 500}, targets : 0..MaxTargets,
   issues : IssueSets(MaxIssues), lively : {FALSE}, classes : {1},
   each : {1}]

PlainSite ==
  [status |-> 200, targets |-> 0, issues |-> {}, lively |-> FALSE,
   classes |-> 1, each |-> 1]

\* a lively page: its scripts log console errors while the loop acts on it
\* and its links lead to other origins
LivelySite == [PlainSite EXCEPT !.lively = TRUE]

Urls == {"", "https://site"}

\* the phase finds something to commit
Found(p) ==
  /\ p \in site.issues
  /\ (p \in Range(Workflows) \ {"testKeyboardNav", "testScrollInteractions"}
        => site.targets > 0)

\* -------------------------------------------------------------- commits
Severities == {"Critical", "High", "Medium", "Low"}
Categories ==
  {"Navigation", "Console", "Network", "Accessibility", "SEO", "Security",
   "Performance", "Layout", "Functional", "Content", "UX"}

\* addBug run to its end: the ledger with the new entry
Committed(ledger, opts) ==
  LET id == NextBugId(ledger)
      shot == TakeScreenshot(<<id, opts.evidenceLabel>>, TRUE)
  IN Append(ledger, BugEntry(id, opts, shot.path))

Opts(title, severity, category, label) ==
  [title |-> title, severity |-> severity, category |-> category,
   evidenceLabel |-> label]

\* the category a detector or workflow files its finding under
CategoryOf(p) ==
  CASE p = "checkSEO" -> "SEO"
    [] p \in {"checkAccessibility", "testKeyboardNav"} -> "Accessibility"
    [] p \in {"checkBrokenImages", "checkBrokenLinks"} -> "Content"
    [] p = "checkSecurityHeaders" -> "Security"
    [] p = "checkPerformance" -> "Performance"
    [] p \in {"checkLayout", "checkResponsive"} -> "Layout"
    [] p \in {"crawlSitePages", "testNavigationWorkflows"} -> "Navigation"
    [] OTHER -> "Functional"

\* the severity of a finding made of a single issue
SeverityOf(p) ==
  CASE p \in {"testFormWorkflows", "testWalletFlow"} -> "High"
    [] p = "testHoverInteractions" -> "Low"
    [] OTHER -> "Medium"

PhaseOpts(p) == Opts(<<p>>, SeverityOf(p), CategoryOf(p), p)

AiOptsAsReturned(tag, cand, fallback, label) ==
  Opts(<<tag, cand.title>>, cand.severity, cand.category, label)

\* a bug candidate of the oracle, coerced into the closed enumerations
AiOpts(tag, cand, fallback, label) ==
  Opts(<<tag, cand.title>>,
       IF cand.severity \in Severities THEN cand.severity ELSE "Medium",
       IF cand.category \in Categories THEN cand.category ELSE fallback,
       label)

RECURSIVE CommitAll(_, _, _, _, _)
CommitAll(ledger, cands, tag, fallback, label) ==
  IF cands = <<>> THEN ledger
  ELSE CommitAll(Committed(ledger, AiOpts(tag, Head(cands), fallback, label)),
                 Tail(cands), tag, fallback, label)

\* for (const b of value.bugs) raises a TypeError on null and on an object
\* without a bugs field
BugsFault(v) == v.k = "null" \/ ~Has(v.o, "bugs")

\* ------------------------------------------------------------ control flow
\* main goes on to phase p
Goto(p) ==
  /\ pc' = p
  /\ UNCHANGED <<exitCode, faultBy>>

ThrowSwallowed(by) ==
  /\ pc' = "exited"
  /\ exitCode' = exitCode
  /\ faultBy' = by

\* a fault reaches main's catch: process.exitCode = 1; the finally block
\* closes the prompt and main is over
Throw(by) ==
  /\ pc' = "exited"
  /\ exitCode' = 1
  /\ faultBy' = by

Enter(p) ==
  /\ pc = p
  /\ trace' = Append(trace, p)

InitGemini ==
  /\ Enter("initGemini")
  /\ geminiModel' = InitGeminiText
  /\ geminiVisionModel' = InitGeminiVision
  /\ Goto("askUrl")
  /\ UNCHANGED <<response, browser, workflowResults, reportWritten,
                 oracleContacted, bugs>>
  /\ UNCHANGED <<accVars, loopVars, notMain>>

\* const url = await ask('Target URL'); if (!url) throw
AskUrl ==
  /\ Enter("askUrl")
  /\ IF url = "" THEN Throw("input") ELSE Goto("launch")
  /\ UNCHANGED <<response, browser, workflowResults, reportWritten,
                 oracleContacted, bugs, geminiModel, geminiVisionModel>>
  /\ UNCHANGED <<accVars, loopVars, notMain>>

Launch ==
  /\ Enter("launch")
  /\ browser' = "open"
  /\ Goto("navigate")
  /\ UNCHANGED <<response, workflowResults, reportWritten, oracleContacted,
                 bugs, geminiModel, geminiVisionModel>>
  /\ UNCHANGED <<accVars, loopVars, notMain>>

NavSeverityFlat(status) == "High"
\* severity: response.status() >= 500 ? 'Critical' : 'High'
NavSeverity(status) == IF status >= 500 THEN "Critical" ELSE "High"

\* the first navigation and the two commits that may follow it
Navigate ==
  /\ Enter("navigate")
  /\ response' = site.status
  /\ bugs' =
       IF site.status = NoResponse
         THEN Committed(bugs, Opts(<<"Navigation timeout">>, "Critical",
                                   "Navigation", "nav-timeout"))
       ELSE IF site.status >= 400
         THEN Committed(bugs, Opts(<<"HTTP status on navigation">>,
                                   NavSeverity(site.status),
                                   "Navigation", "http-status"))
       ELSE bugs
  /\ Goto("settle")
  /\ UNCHANGED <<browser, workflowResults, reportWritten, oracleContacted,
                 geminiModel, geminiVisionModel>>
  /\ UNCHANGED <<accVars, loopVars, notMain>>

\* the page settles, the baseline screenshot is taken, explorePage scrolls;
\* the listeners record what the page logged and failed to load meanwhile
Settle ==
  /\ Enter("settle")
  /\ consoleErrors' =
       IF "checkConsoleErrors" \in site.issues THEN Append(consoleErrors, "e1")
       ELSE consoleErrors
  /\ failedRequests' =
       IF "checkNetworkFailures" \in site.issues
         THEN Append(failedRequests,
                     [url |-> "u", method |-> "GET", resourceType |-> "fetch",
                      failure |-> "net"])
       ELSE failedRequests
  /\ Goto(After("settle"))
  /\ UNCHANGED <<response, browser, workflowResults, reportWritten,
                 oracleContacted, bugs, geminiModel, geminiVisionModel,
                 consoleWarnings, pageErrors>>
  /\ UNCHANGED <<loopVars, notMain>>

\* the lists of issues a detector keeps, each committed as one bug
ClassesOf(p) ==
  CASE p = "checkSEO" -> 6
    [] p = "checkSecurityHeaders" -> 2
    [] OTHER -> 1

\* the six findings of checkSEO, each committed on its own, without details
SeoFindings ==
  <<Opts(<<"Missing page <title>">>, "Medium", "SEO", "missing-title"),
    Opts(<<"Missing meta description">>, "Low", "SEO", "missing-description"),
    Opts(<<"Missing viewport meta tag">>, "Medium", "SEO", "missing-viewport"),
    Opts(<<"Missing lang attribute on <html>">>, "Low", "Accessibility",
         "missing-lang"),
    Opts(<<"Missing favicon">>, "Low", "UX", "missing-favicon"),
    Opts(<<"Missing Open Graph tags">>, "Low", "SEO", "missing-og")>>

\* the issue strings of class c of detector p on the site
IssuesOf(p, c) == [k \in 1..site.each |-> [by |-> p, class |-> c, n |-> k]]

WithoutDetails(opts, details) == opts
\* details: issues
WithDetails(opts, details) ==
  [f \in DOMAIN opts \cup {"details"} |->
     IF f = "details" THEN details ELSE opts[f]]

\* what detector p passes to addBug for its class c
FindingOpts(p, c) ==
  LET issues == IssuesOf(p, c)
  IN CASE p = "checkSEO" -> SeoFindings[c]
       [] p = "checkSecurityHeaders" /\ c = 1 ->
            WithDetails(Opts(StringOf(Len(issues))
                               \o <<"missing security header(s)">>,
                             IF Len(issues) > 3 THEN "High" ELSE "Medium",
                             "Security", "security-headers"),
                        issues)
       [] p = "checkSecurityHeaders" /\ c = 2 ->
            WithDetails(Opts(StringOf(Len(issues))
                               \o <<"mixed content resource(s)">>,
                             "High", "Security", "mixed-content"),
                        FirstN(issues, 15))
       [] p = "checkBrokenImages" ->
            WithDetails(PhaseOpts(p), FirstN(issues, 15))
       [] p = "checkBrokenLinks" ->
            WithDetails(PhaseOpts(p), FirstN(issues, 20))
       [] OTHER -> WithDetails(PhaseOpts(p), issues)

RECURSIVE CommitClasses(_, _, _, _)
CommitClasses(ledger, p, c, n) ==
  IF c > n THEN ledger
  ELSE CommitClasses(Committed(ledger, FindingOpts(p, c)), p, c + 1, n)

\* the ledger after detector p: one commit per non-empty list
DetectorCommits(ledger, p) ==
  IF Found(p)
    THEN CommitClasses(ledger, p, 1,
                       IF site.classes < ClassesOf(p) THEN site.classes
                       ELSE ClassesOf(p))
  ELSE ledger

\* one page detector; checkSecurityHeaders is skipped without a response
Detector ==
  /\ pc \in Range(Detectors)
  /\ LET runs == pc # "checkSecurityHeaders" \/ response # NoResponse
     IN /\ trace' = IF runs THEN Append(trace, pc) ELSE trace
        /\ bugs' = IF runs THEN DetectorCommits(bugs, pc) ELSE bugs
  /\ Goto(After(pc))
  /\ UNCHANGED <<response, browser, workflowResults, reportWritten,
                 oracleContacted, geminiModel, geminiVisionModel>>
  /\ UNCHANGED <<accVars, loopVars, notMain>>

\* if (LLM_ENABLED) { ... await llmAutonomousExploration(page, ctx, url, 20) },
\* which returns at once without a model
LlmGate ==
  /\ pc = "llm"
  /\ trace' = IF LLM_ENABLED THEN Append(trace, "llm") ELSE trace
  /\ Goto(IF LLM_ENABLED /\ geminiModel # NULL THEN "understand"
          ELSE After("llm"))
  /\ UNCHANGED <<response, browser, workflowResults, reportWritten,
                 oracleContacted, bugs, geminiModel, geminiVisionModel>>
  /\ UNCHANGED <<accVars, loopVars, notMain>>

\* ------------------------------------------- llmAutonomousExploration
LoopHeadInclusive(n) == IF n <= maxIterations THEN "plan" ELSE "finalVisual"
\* for (let i = 0; i < maxIterations; i++): where control goes with i = n
LoopHead(n) == IF n < maxIterations THEN "plan" ELSE "finalVisual"

\* how the loop stands once control is at LoopHead(n)
LoopEndAt(n) == IF LoopHead(n) = "plan" THEN "none" ELSE "cap"

DoneKept(n) == n
\* consecutiveDone = 0 after a plan that is not done
DoneReset(n) == 0

\* action.action as the loop reads it
PlanKind(a) == IF a.k = "null" THEN "null" ELSE Field(a.o, "action")

\* log(`LLM action: ${action.action} - ${action.reasoning.slice(0, 80)}`)
\* raises a TypeError on null and on an object without reasoning
LogFaults(a) == a.k = "null" \/ ~Has(a.o, "reasoning")

\* how one call of executeLLMAction inside the loop goes
LoopRuns ==
  { [world |-> [target |-> "visible", driver |-> "ok"], delta |-> 0],
    [world |-> [target |-> "visible", driver |-> "ok"], delta |-> 1],
    [world |-> [target |-> "hidden", driver |-> "ok"], delta |-> 0],
    [world |-> [target |-> "visible", driver |-> "raise"], delta |-> 0] }

\* the runs of executeLLMAction on the site
RunsOn(s) ==
  IF s.lively THEN {[world |-> [target |-> "visible", driver |-> "ok"],
                     delta |-> 0]}
  ELSE LoopRuns

\* the console errors the page logs while an action runs on it
ConsoleDuring(s) == IF s.lively THEN {<<>>, <<"e1">>} ELSE {<<>>}

\* where an action leaves the page
Landings(s, at) == IF s.lively THEN {"base", "other"} ELSE {at}

TurnIdle ==
  [before |-> <<>>, appended |-> <<>>, newErrors |-> <<>>, offSite |-> FALSE,
   returned |-> "none", candidates |-> <<>>, first |-> 0]

NewErrorsBySlice(before, after) == SubSeq(after, Len(before) + 1, Len(after))
\* consoleErrors.filter(e => !consoleErrorsBefore.includes(e))
NewErrors(before, after) ==
  SelectSeq(after, LAMBDA e : e \notin Range(before))

\* new URL(u) raises a TypeError on a text that is not an absolute URL
Parses(u) == u \in {"https://site"}

OffOriginNever(at) == FALSE
\* currentOrigin !== baseOrigin
OffOrigin(at) == at # "base"

\* how page.goto(baseUrl) of the safety return goes
Returns == {"ok", "failed"}

WorkflowResult(name, index, passed) ==
  [name |-> name, index |-> index, passed |-> passed, error |-> ~passed]

\* getPageUnderstanding, then the loop is entered with i = 0
Understand ==
  /\ pc = "understand"
  /\ oracleContacted' = (oracleContacted \/ Asked("vision"))
  /\ i' = 0
  /\ consecutiveDone' = 0
  /\ loopEnd' = LoopEndAt(0)
  /\ Goto(LoopHead(0))
  /\ UNCHANGED <<response, browser, workflowResults, reportWritten, bugs,
                 geminiModel, geminiVisionModel, trace, action, result,
                 planText, plans, planQueries, actsExecuted, page, turn>>
  /\ UNCHANGED <<accVars, notMain>>

\* PLAN: getNextTestAction, the log line, and the handling of `done`
Plan ==
  /\ pc = "plan"
  /\ \E raw \in Replies("vision", PlanTexts) :
       LET a == IF geminiModel = NULL THEN DonePlan("LLM not available")
                ELSE GetNextTestAction(raw)
       IN /\ planText' = raw
          /\ action' = a
          /\ plans' = Append(plans, PlanKind(a))
          /\ planQueries' = planQueries + 1
          /\ oracleContacted' = (oracleContacted \/ Asked("vision"))
          /\ IF LogFaults(a)
               THEN /\ Throw("oracle")
                    /\ loopEnd' = "fault"
                    /\ UNCHANGED <<i, consecutiveDone>>
             ELSE IF PlanKind(a) = "done"
               THEN /\ consecutiveDone' = consecutiveDone + 1
                    /\ IF consecutiveDone + 1 >= 2
                         THEN /\ Goto("finalVisual")
                              /\ loopEnd' = "break"
                              /\ UNCHANGED i
                         ELSE /\ Goto(LoopHead(i + 1))
                              /\ loopEnd' = LoopEndAt(i + 1)
                              /\ i' = i + 1
             ELSE /\ consecutiveDone' = DoneReset(consecutiveDone)
                  /\ Goto("act")
                  /\ UNCHANGED <<i, loopEnd>>
  /\ UNCHANGED <<response, browser, workflowResults, reportWritten, bugs,
                 geminiModel, geminiVisionModel, trace, result, actsExecuted,
                 page, turn>>
  /\ UNCHANGED <<accVars, notMain>>

\* ACT: the before-screenshot and executeLLMAction
Act ==
  /\ pc = "act"
  /\ \E run \in RunsOn(site), during \in ConsoleDuring(site),
        landing \in Landings(site, page) :
       LET r == ExecuteLLMAction(action.o, run.world, run.delta)
           after == consoleErrors \o during
       IN /\ result' = r
          /\ pageErrors' = IF run.delta > 0 THEN Append(pageErrors, "e1")
                           ELSE pageErrors
          /\ consoleErrors' = after
          /\ page' = landing
          /\ IF r.thrown
               THEN /\ Throw("action")
                    /\ loopEnd' = "fault"
                    /\ turn' = [turn EXCEPT !.before = consoleErrors,
                                            !.appended = during]
               ELSE /\ Goto("judge")
                    /\ turn' = [turn EXCEPT
                                  !.before = consoleErrors,
                                  !.appended = during,
                                  !.newErrors = NewErrors(consoleErrors, after),
                                  !.offSite = (landing # "base"),
                                  !.returned = "none"]
                    /\ UNCHANGED loopEnd
  /\ actsExecuted' = actsExecuted + 1
  /\ UNCHANGED <<response, browser, workflowResults, reportWritten, bugs,
                 geminiModel, geminiVisionModel, trace, oracleContacted,
                 consoleWarnings, failedRequests, i,
                 consecutiveDone, action, planText, plans, planQueries>>
  /\ UNCHANGED notMain

\* JUDGE: evaluateActionResult, the commits of its candidates, the workflow
\* result of the iteration, i++
Judge ==
  /\ pc = "judge"
  /\ \E raw \in Replies("vision", BugsTexts) :
       LET ev == IF geminiModel = NULL THEN NoBugs ELSE ParseBugs(raw)
       IN /\ oracleContacted' = (oracleContacted \/ Asked("vision"))
          /\ IF BugsFault(ev)
               THEN /\ Throw("oracle")
                    /\ loopEnd' = "fault"
                    /\ UNCHANGED <<bugs, workflowResults, i, page, turn>>
               ELSE /\ bugs' = CommitAll(bugs, ev.o.bugs, "[AI] ", "Functional",
                                         "llm-bug")
                    /\ \E went \in IF Parses(url) /\ OffOrigin(page)
                                      THEN Returns ELSE {"none"} :
                         /\ page' = IF went = "ok" THEN "base" ELSE page
                         /\ turn' = [turn EXCEPT !.returned = went,
                                                 !.candidates = ev.o.bugs,
                                                 !.first = Len(bugs)]
                    /\ workflowResults' =
                         Append(workflowResults,
                                WorkflowResult(<<"AI Action", PlanKind(action)>>, i + 1,
                                               /\ ~result.error
                                               /\ result.jsErrors = 0
                                               /\ Len(ev.o.bugs) = 0))
                    /\ i' = i + 1
                    /\ Goto(LoopHead(i + 1))
                    /\ loopEnd' = LoopEndAt(i + 1)
  /\ UNCHANGED <<response, browser, reportWritten, geminiModel,
                 geminiVisionModel, trace, consecutiveDone, action, result,
                 planText, plans, planQueries, actsExecuted>>
  /\ UNCHANGED <<accVars, notMain>>

\* the final visual inspection, after which main goes on
FinalVisual ==
  /\ pc = "finalVisual"
  /\ \E raw \in Replies("vision", BugsTexts) :
       LET v == IF geminiModel = NULL THEN NoBugs ELSE ParseBugs(raw)
       IN /\ oracleContacted' = (oracleContacted \/ Asked("vision"))
          /\ IF BugsFault(v)
               THEN Throw("oracle") /\ UNCHANGED bugs
               ELSE /\ bugs' = CommitAll(bugs, v.o.bugs, "[AI Visual] ", "Layout",
                                         "llm-visual")
                    /\ Goto(After("llm"))
  /\ UNCHANGED <<response, browser, workflowResults, reportWritten,
                 geminiModel, geminiVisionModel, trace>>
  /\ UNCHANGED <<accVars, loopVars, notMain>>

\* ------------------------------------------------ deterministic workflows
\* the crawler's pass over its pages: st.ledger is the ledger, st.issues the
\* length of pageIssues.  The visual analysis of a page runs inside the
\* page's try block, so a fault of it becomes a page issue.
RECURSIVE Crawled(_, _, _)
Crawled(replies, k, st) ==
  IF k > Len(replies) THEN st
  ELSE LET v == ParseBugs(replies[k])
           next ==
             IF ~(LLM_ENABLED /\ k <= 5) \/ geminiModel = NULL THEN st
             ELSE IF BugsFault(v) THEN [st EXCEPT !.issues = @ + 1]
             ELSE [st EXCEPT !.ledger = CommitAll(@, v.o.bugs, "[AI Visual] ",
                                                  "Layout", "llm-crawl-visual")]
       IN Crawled(replies, k + 1, next)

CrawlSitePages ==
  /\ Enter("crawlSitePages")
  /\ \E replies \in [1..site.targets -> Replies("vision", BugsTexts)] :
       LET st == Crawled(replies, 1,
                         [ledger |-> bugs,
                          issues |-> IF Found("crawlSitePages") THEN 1 ELSE 0])
       IN /\ bugs' =
               IF st.issues > 0
                 THEN Committed(st.ledger,
                                Opts(<<"crawlSitePages">>,
                                     IF st.issues > 3 THEN "High" ELSE "Medium",
                                     "Navigation", "site-crawl"))
               ELSE st.ledger
          /\ workflowResults' =
               Append(workflowResults,
                      WorkflowResult(<<"crawlSitePages">>, 1, st.issues = 0))
  /\ oracleContacted' =
       (oracleContacted \/ (LLM_ENABLED /\ site.targets > 0 /\ Asked("vision")
                              /\ geminiModel # NULL))
  /\ Goto(After("crawlSitePages"))
  /\ UNCHANGED <<response, browser, reportWritten, geminiModel,
                 geminiVisionModel>>
  /\ UNCHANGED <<accVars, loopVars, notMain>>

\* the results a workflow pushes: one per exercised target, or one in all
Recorded(p) ==
  [k \in 1..(IF p \in FixedWorkflows THEN 1 ELSE site.targets) |->
     WorkflowResult(<<p>>, k, ~Found(p))]

\* one of the other eight workflows
Workflow ==
  /\ pc \in Range(Workflows) \ {"crawlSitePages"}
  /\ trace' = Append(trace, pc)
  /\ workflowResults' = workflowResults \o Recorded(pc)
  /\ bugs' = IF Found(pc) THEN Committed(bugs, PhaseOpts(pc)) ELSE bugs
  /\ Goto(After(pc))
  /\ UNCHANGED <<response, browser, reportWritten, oracleContacted,
                 geminiModel, geminiVisionModel>>
  /\ UNCHANGED <<accVars, loopVars, notMain>>

\* ------------------------------------------------- the end of the run
CheckConsoleErrors ==
  /\ Enter("checkConsoleErrors")
  /\ LET b1 == IF Len(consoleErrors) > 0
                 THEN Committed(bugs,
                                WithDetails(Opts(<<"console error(s)">>,
                                                 "High", "Console",
                                                 "console-errors"),
                                            FirstN(consoleErrors, 20)))
                 ELSE bugs
         b2 == IF Len(pageErrors) > 0
                 THEN Committed(b1,
                                WithDetails(Opts(<<"uncaught exception(s)">>,
                                                 "High", "Console",
                                                 "page-errors"),
                                            FirstN(pageErrors, 20)))
                 ELSE b1
     IN bugs' = IF Len(consoleWarnings) > 10
                  THEN Committed(b2,
                                 WithDetails(Opts(<<"console warnings">>,
                                                  "Low", "Console",
                                                  "console-warnings"),
                                             FirstN(consoleWarnings, 15)))
                  ELSE b2
  /\ Goto(After("checkConsoleErrors"))
  /\ UNCHANGED <<response, browser, workflowResults, reportWritten,
                 oracleContacted, geminiModel, geminiVisionModel>>
  /\ UNCHANGED <<accVars, loopVars, notMain>>

\* `${r.method} ${r.url} -> ${r.status ?? r.failure}`
RequestLines(requests) ==
  [k \in 1..Len(requests) |->
     [url |-> requests[k].url,
      what |-> IF Has(requests[k], "status") THEN StringOf(requests[k].status)
               ELSE <<requests[k].failure>>]]

CheckNetworkFailures ==
  /\ Enter("checkNetworkFailures")
  /\ LET critical ==
           SelectSeq(failedRequests,
                     LAMBDA r : \/ Has(r, "status") /\ r.status >= 500
                                \/ r.resourceType \in {"fetch", "xhr"})
         assets ==
           SelectSeq(failedRequests,
                     LAMBDA r : r.resourceType \in
                                  {"stylesheet", "script", "font", "image"})
         b1 == IF Len(critical) > 0
                 THEN Committed(bugs,
                                WithDetails(
                                  Opts(<<"failed API/server request(s)">>,
                                       "High", "Network", "network-api-fails"),
                                  RequestLines(FirstN(critical, 15))))
                 ELSE bugs
     IN bugs' = IF Len(assets) > 0
                  THEN Committed(b1,
                                 WithDetails(
                                   Opts(<<"failed asset request(s)">>,
                                        "Medium", "Network",
                                        "network-asset-fails"),
                                   RequestLines(FirstN(assets, 15))))
                  ELSE b1
  /\ Goto(After("checkNetworkFailures"))
  /\ UNCHANGED <<response, browser, workflowResults, reportWritten,
                 oracleContacted, geminiModel, geminiVisionModel>>
  /\ UNCHANGED <<accVars, loopVars, notMain>>

\* ------------------------------------------------------------ writeReport
SeverityOrder == <<"Critical", "High", "Medium", "Low">>

\* const order = { Critical: 0, High: 1, Medium: 2, Low: 3 }
Rank(severity) == IndexOf(SeverityOrder, severity) - 1

\* Array.prototype.sort with (a, b) => order[a.severity] - order[b.severity]:
\* a stable sort, here by insertion from the left
RECURSIVE Inserted(_, _)
Inserted(sorted, bug) ==
  IF sorted = <<>> THEN <<bug>>
  ELSE IF Rank(sorted[Len(sorted)].severity) <= Rank(bug.severity)
    THEN Append(sorted, bug)
  ELSE Append(Inserted(SubSeq(sorted, 1, Len(sorted) - 1), bug),
              sorted[Len(sorted)])

RECURSIVE SortedFrom(_, _)
SortedFrom(sorted, rest) ==
  IF rest = <<>> THEN sorted
  ELSE SortedFrom(Inserted(sorted, Head(rest)), Tail(rest))

DiscoveryOrder(ledger) == ledger
\* [...bugs].sort(...)
SortBySeverity(ledger) == SortedFrom(<<>>, ledger)

SortedInPlace(ledger) == SortBySeverity(ledger)
\* the ledger after writeReport: the sort works on a copy
LedgerAfterReport(ledger) == ledger

\* [...new Set(bugs.map(b => b.category))]: first occurrences, in order
RECURSIVE CategoriesOf(_)
CategoriesOf(ledger) ==
  IF ledger = <<>> THEN <<>>
  ELSE LET before == CategoriesOf(SubSeq(ledger, 1, Len(ledger) - 1))
           c == ledger[Len(ledger)].category
       IN IF c \in Range(before) THEN before ELSE Append(before, c)

Count(ledger, Test(_)) == Len(SelectSeq(ledger, Test))

\* the executive summaries the service writes
SummaryTexts == {<<[t |-> "prose"]>>}

\* the text writeReport writes, by section; summary is what
\* generateLLMReportSummary returned (the empty text: no summary section)
ReportText(summary) ==
  [url |-> url,
   runId |-> "run",
   date |-> now,
   engine |-> LLM_ENABLED,
   found |-> Len(bugs),
   summary |-> summary,
   severityRows |->
     [k \in 1..Len(SeverityOrder) |->
        [severity |-> SeverityOrder[k],
         count |-> Count(bugs, LAMBDA b : b.severity = SeverityOrder[k])]],
   categoryRows |->
     [k \in 1..Len(CategoriesOf(bugs)) |->
        [category |-> CategoriesOf(bugs)[k],
         count |-> Count(bugs, LAMBDA b : b.category = CategoriesOf(bugs)[k])]],
   consoleErrors |-> FirstN(consoleErrors, 25),
   pageErrors |-> FirstN(pageErrors, 25),
   consoleWarnings |-> FirstN(consoleWarnings, 10),
   failedRequests |-> FirstN(failedRequests, 30),
   workflows |-> workflowResults,
   entries |-> SortBySeverity(bugs)]

\* the summaries generateLLMReportSummary may return to writeReport
Summaries ==
  IF LLM_ENABLED THEN Replies("text", SummaryTexts) ELSE {EmptyText}

\* the body of writeReport: with LLM_ENABLED the executive summary is asked
\* of the oracle; the text is written to the report file
CompileReport ==
  /\ \E summary \in Summaries : reports' = Append(reports, ReportText(summary))
  /\ oracleContacted' = (oracleContacted \/ (LLM_ENABLED /\ Asked("text")))
  /\ reportWritten' = TRUE
  /\ bugs' = LedgerAfterReport(bugs)
  /\ UNCHANGED <<response, browser, workflowResults, geminiModel,
                 geminiVisionModel>>
  /\ UNCHANGED <<accVars, loopVars, notRun>>

\* await writeReport(ctx, url, scope) in main
WriteReport ==
  /\ Enter("writeReport")
  /\ CompileReport
  /\ Goto(After("writeReport"))

\* writeReport called on its own, any number of times (bounded by MaxReports)
ReportCompile ==
  /\ pc = "writeReport"
  /\ Len(reports) < MaxReports
  /\ CompileReport
  /\ UNCHANGED <<pc, exitCode, faultBy, trace>>

\* the wall clock new Date() reads moves between two calls
ReportTick ==
  /\ pc = "writeReport"
  /\ now < LLM_MIN_DELAY + MaxReportGap
  /\ now' = now + 1
  /\ UNCHANGED <<lastLLMCall, oc, calls, lastReqAt, reqGap>>
  /\ UNCHANGED notChannel

Close ==
  /\ Enter("close")
  /\ browser' = "closed"
  /\ Goto(After("close"))
  /\ UNCHANGED <<response, workflowResults, reportWritten, oracleContacted,
                 bugs, geminiModel, geminiVisionModel>>
  /\ UNCHANGED <<accVars, loopVars, notMain>>

\* finally { if (rl) rl.close(); }
Finally ==
  /\ pc = "finally"
  /\ pc' = "exited"
  /\ UNCHANGED <<exitCode, faultBy, trace, response, browser, workflowResults,
                 reportWritten, oracleContacted, bugs, geminiModel,
                 geminiVisionModel>>
  /\ UNCHANGED <<accVars, loopVars, notMain>>

\* a driver or file-system call outside any try/catch rejects: the fault
\* leaves the phase and reaches main's catch
DriverFault ==
  /\ pc \in Fallible
  /\ Throw("driver")
  /\ loopEnd' = IF pc \in LoopPcs \ {"understand", "finalVisual"} THEN "fault"
                ELSE loopEnd
  /\ UNCHANGED <<trace, response, browser, workflowResults, reportWritten,
                 oracleContacted, bugs, geminiModel, geminiVisionModel, i,
                 consecutiveDone, action, result, planText, plans,
                 planQueries, actsExecuted, page, turn>>
  /\ UNCHANGED <<accVars, notMain>>

LoopStep ==
  \/ Understand
  \/ Plan
  \/ Act
  \/ Judge
  \/ FinalVisual

MainStep ==
  \/ InitGemini
  \/ AskUrl
  \/ Launch
  \/ Navigate
  \/ Settle
  \/ Detector
  \/ LlmGate
  \/ CrawlSitePages
  \/ Workflow
  \/ CheckConsoleErrors
  \/ CheckNetworkFailures
  \/ WriteReport
  \/ Close
  \/ Finally
  \/ DriverFault


\* ===================================== testDropdownsAndTabs, testWalletFlow
MaxTabs == 2
MaxDropdowns == 1
MaxConnects == 1
MaxForms == 2
MaxInputs == 1

\* how a tab-like element is found by the discovery selector list: by
\* [role="tab"] (which the later check's selector also matches) or by
\* [data-tab] (which it does not)
TabSelectors == {"role-tab", "data-tab"}

\* the selector the check after the click uses: '[role="tab"], [class*="tab"]'
CheckMatches(el) == el.via = "role-tab"

\* what exercising a target comes to: it is skipped as already active, its
\* locator is not visible, its click times out, or the click goes through
\* and the target does or does not reach its expected state
TabElements ==
  [text : {"A", "B"}, via : TabSelectors,
   reach : {"active", "hidden", "timeout", "ok"}, gains : BOOLEAN, js : BOOLEAN]

\* an element's behaviour past its click only matters if the click happens
Canonical(el) == el.reach # "ok" => (~el.js /\ (Has(el, "gains") => ~el.gains))

DropdownElements ==
  [text : {"D"}, hasPopup : BOOLEAN, reach : {"hidden", "timeout", "ok"},
   opens : BOOLEAN, js : BOOLEAN]

ConnectElements ==
  [text : {"Connect"}, reach : {"hidden", "timeout", "ok"},
   panel : {"none", "empty", "options"}, js : BOOLEAN]

RECURSIVE SeqsUpTo(_, _)
SeqsUpTo(S, n) ==
  IF n = 0 THEN {<<>>}
  ELSE SeqsUpTo(S, n - 1) \cup
       { Append(s, x) : s \in { t \in SeqsUpTo(S, n - 1) : Len(t) = n - 1 }, x \in S }

\* seen.has(text): the first element of every text, in document order
RECURSIVE Distinct(_)
Distinct(els) ==
  IF els = <<>> THEN <<>>
  ELSE LET before == Distinct(SubSeq(els, 1, Len(els) - 1))
           el == els[Len(els)]
       IN IF \E k \in 1..Len(before) : before[k].text = el.text THEN before
          ELSE Append(before, el)

TabsFound == FirstN(Distinct(dom.tabs), 8)
DropdownsFound == FirstN(Distinct(dom.dropdowns), 8)
ConnectsFound == FirstN(dom.connects, 4)

\* becameActive: the first element matched by the check's selector whose
\* text starts with the tab's text tells; null ("undetermined") without one.
\* The clicked element is the first one of that text.
BecameActive(tab) ==
  LET matched == SelectSeq(dom.tabs, LAMBDA el : CheckMatches(el) /\ el.text = tab.text)
  IN IF matched = <<>> THEN "undetermined"
     ELSE IF matched[1] = tab THEN (IF tab.gains THEN "yes" ELSE "no")
     ELSE IF matched[1].reach = "active" THEN "yes" ELSE "no"

Issue(kind, text) == [kind |-> kind, about |-> text]

\* the page raised its uncaught exception(s) during the click
Raised(el) == IF el.js THEN Append(pageErrors, "e1") ELSE pageErrors

\* document.body, or no element: the evaluate of testKeyboardNav returns null
Body == [id |-> 0, hasOutline |-> TRUE]

KeyboardIdle ==
  [phase |-> "idle", ring |-> <<Body>>, raises |-> FALSE, i |-> 0,
   errorsBefore |-> 0, focusedElements |-> <<>>, issues |-> <<>>]

WidgetsIdle ==
  /\ wf = [phase |-> "idle", k |-> 1, issues |-> <<>>]
  /\ kb = KeyboardIdle

\* one iteration of the loop over the tabs
TabStep ==
  /\ wf.phase = "tabs"
  /\ wf.k <= Len(TabsFound)
  /\ LET tab == TabsFound[wf.k]
         active == BecameActive(tab)
         found == (IF active = "no"
                     THEN <<Issue("did not become active", tab.text)>> ELSE <<>>)
                  \o (IF tab.js THEN <<Issue("triggered JS error", tab.text)>> ELSE <<>>)
     IN IF tab.reach = "ok"
          THEN /\ pageErrors' = Raised(tab)
               /\ wf' = [wf EXCEPT !.k = @ + 1, !.issues = @ \o found]
               /\ workflowResults' =
                    Append(workflowResults,
                           [name |-> <<"Tab switch", tab.text>>, index |-> wf.k,
                            passed |-> active # "no" /\ ~tab.js, error |-> FALSE])
          ELSE /\ wf' = [wf EXCEPT !.k = @ + 1]
               /\ UNCHANGED <<pageErrors, workflowResults>>
  /\ UNCHANGED <<dom, kb, bugs, ledgerPc, commit, shotFailed, heard, consoleErrors,
                 consoleWarnings, failedRequests, pc, exitCode, url, response,
                 browser, site, service, reportWritten, faultBy, trace,
                 oracleContacted, maxIterations>>
  /\ UNCHANGED <<keyVars, chanVars, actVars, loopVars, reports, linkVars,
               serverVars>>

\* the tabs are done: the dropdowns are discovered
TabsDone ==
  /\ wf.phase = "tabs"
  /\ wf.k > Len(TabsFound)
  /\ wf' = [wf EXCEPT !.phase = "dropdowns", !.k = 1]
  /\ UNCHANGED <<dom, kb, bugs, ledgerPc, commit, shotFailed, heard, accVars,
                 runVars, maxIterations>>
  /\ UNCHANGED <<keyVars, chanVars, actVars, loopVars, reports, linkVars,
               serverVars>>

\* one iteration of the loop over the dropdowns
DropdownStep ==
  /\ wf.phase = "dropdowns"
  /\ wf.k <= Len(DropdownsFound)
  /\ LET dd == DropdownsFound[wf.k]
         found == (IF dd.hasPopup /\ ~dd.opens
                     THEN <<Issue("did not open on click", dd.text)>> ELSE <<>>)
                  \o (IF dd.js THEN <<Issue("triggered JS error", dd.text)>> ELSE <<>>)
     IN IF dd.reach = "ok"
          THEN /\ pageErrors' = Raised(dd)
               /\ wf' = [wf EXCEPT !.k = @ + 1, !.issues = @ \o found]
               /\ workflowResults' =
                    Append(workflowResults,
                           [name |-> <<"Dropdown", dd.text>>, index |-> wf.k,
                            passed |-> ~dd.js, error |-> FALSE])
          ELSE /\ wf' = [wf EXCEPT !.k = @ + 1]
               /\ UNCHANGED <<pageErrors, workflowResults>>
  /\ UNCHANGED <<dom, kb, bugs, ledgerPc, commit, shotFailed, heard, consoleErrors,
                 consoleWarnings, failedRequests, pc, exitCode, url, response,
                 browser, site, service, reportWritten, faultBy, trace,
                 oracleContacted, maxIterations>>
  /\ UNCHANGED <<keyVars, chanVars, actVars, loopVars, reports, linkVars,
               serverVars>>

\* the end of testDropdownsAndTabs: one bug for all its issues
DropdownTabCommit ==
  /\ wf.phase = "dropdowns"
  /\ wf.k > Len(DropdownsFound)
  /\ bugs' = IF wf.issues # <<>>
               THEN Committed(bugs, Opts(<<"dropdown/tab issue(s)">>, "Medium",
                                         "Functional", "dropdown-tab-issues"))
               ELSE bugs
  /\ wf' = [wf EXCEPT !.phase = "wallet", !.k = 1, !.issues = <<>>]
  /\ UNCHANGED <<dom, kb, ledgerPc, commit, shotFailed, heard, accVars, runVars,
                 maxIterations>>
  /\ UNCHANGED <<keyVars, chanVars, actVars, loopVars, reports, linkVars,
               serverVars>>

\* one iteration of testWalletFlow's loop over the connect buttons
WalletStep ==
  /\ wf.phase = "wallet"
  /\ wf.k <= Len(ConnectsFound)
  /\ LET btn == ConnectsFound[wf.k]
         found == (IF btn.panel = "empty"
                     THEN <<Issue("opened but shows no wallet options", btn.text)>>
                     ELSE <<>>)
                  \o (IF btn.js THEN <<Issue("triggered JS error", btn.text)>> ELSE <<>>)
     IN IF btn.reach = "ok"
          THEN /\ pageErrors' = Raised(btn)
               /\ wf' = [wf EXCEPT !.k = @ + 1, !.issues = @ \o found]
               /\ workflowResults' =
                    Append(workflowResults,
                           [name |-> <<"Wallet/Connect", btn.text>>, index |-> wf.k,
                            passed |-> ~btn.js,
                            error |-> (wf.issues \o found) # <<>>])
          ELSE /\ wf' = [wf EXCEPT !.k = @ + 1]
               /\ UNCHANGED <<pageErrors, workflowResults>>
  /\ UNCHANGED <<dom, kb, bugs, ledgerPc, commit, shotFailed, heard, consoleErrors,
                 consoleWarnings, failedRequests, pc, exitCode, url, response,
                 browser, site, service, reportWritten, faultBy, trace,
                 oracleContacted, maxIterations>>
  /\ UNCHANGED <<keyVars, chanVars, actVars, loopVars, reports, linkVars,
               serverVars>>

\* the end of testWalletFlow
WalletCommit ==
  /\ wf.phase = "wallet"
  /\ wf.k > Len(ConnectsFound)
  /\ bugs' = IF wf.issues # <<>>
               THEN Committed(bugs, Opts(<<"wallet/connect flow issue(s)">>, "High",
                                         "Functional", "wallet-flow"))
               ELSE bugs
  /\ wf' = [wf EXCEPT !.phase = "done"]
  /\ UNCHANGED <<dom, kb, ledgerPc, commit, shotFailed, heard, accVars, runVars,
                 maxIterations>>
  /\ UNCHANGED <<keyVars, chanVars, actVars, loopVars, reports, linkVars,
               serverVars>>

WidgetStep ==
  \/ TabStep
  \/ TabsDone
  \/ DropdownStep
  \/ DropdownTabCommit
  \/ WalletStep
  \/ WalletCommit

\* a page without widgets
NoWidgets ==
  [tabs |-> <<>>, dropdowns |-> <<>>, connects |-> <<>>, forms |-> <<>>,
   inputs |-> <<>>]

\* the pages the two workflows are run on: tabs only, or dropdowns and
\* connect buttons only
WidgetPages ==
  { [NoWidgets EXCEPT !.tabs = ts] :
      ts \in SeqsUpTo({ el \in TabElements : Canonical(el) }, MaxTabs) }
  \cup
  { [NoWidgets EXCEPT !.dropdowns = ds, !.connects = cs] :
      ds \in SeqsUpTo({ el \in DropdownElements : ~el.js \/ el.reach = "ok" },
                      MaxDropdowns),
      cs \in SeqsUpTo({ el \in ConnectElements : ~el.js \/ el.reach = "ok" },
                      MaxConnects) }

\* -------------------------------------------------------- testFormWorkflows
\* a <form>: whether one of its inputs shows a validation error once filled,
\* what becomes of the click on its submit button ("none": no button), and
\* whether the submission raises an uncaught exception
FormElements ==
  { f \in [invalid : BOOLEAN, submit : {"none", "hidden", "timeout", "ok"},
           js : BOOLEAN] : f.js => f.submit = "ok" }

\* an input outside any form: whether it is visible, whether Enter raises
InputElements ==
  { e \in [reach : {"hidden", "ok"}, js : BOOLEAN] : e.js => e.reach = "ok" }

\* the anomalies observed while testing the k-th form
FormIssuesOf(k) ==
  LET form == dom.forms[k]
  IN (IF form.invalid
        THEN <<Issue("showed validation error", k)>> ELSE <<>>)
     \o (IF form.submit = "ok" /\ form.js
           THEN <<Issue("Form submission triggered JS error", k)>> ELSE <<>>)

\* formIssues is declared once, before the loop over the forms
AllIssues(issues, found) == issues \o found

\* one iteration of the loop over the forms
FormStep ==
  /\ wf.phase = "forms"
  /\ wf.k <= Len(dom.forms)
  /\ LET form == dom.forms[wf.k]
         formIssues == AllIssues(wf.issues, FormIssuesOf(wf.k))
     IN /\ pageErrors' = IF form.submit = "ok" THEN Raised(form)
                         ELSE pageErrors
        /\ wf' = [wf EXCEPT !.k = @ + 1, !.issues = @ \o FormIssuesOf(wf.k)]
        /\ workflowResults' =
             Append(workflowResults,
                    [name |-> <<"Form Workflow", wf.k>>, index |-> wf.k,
                     passed |-> formIssues = <<>>, error |-> formIssues])
  /\ UNCHANGED <<dom, kb, bugs, ledgerPc, commit, shotFailed, heard,
                 consoleErrors, consoleWarnings, failedRequests, pc, exitCode,
                 url, response, browser, site, service, reportWritten, faultBy,
                 trace, oracleContacted, maxIterations>>
  /\ UNCHANGED <<keyVars, chanVars, actVars, loopVars, reports, linkVars,
                 serverVars>>

InputsFound == FirstN(dom.inputs, 5)

\* one iteration of the loop over the standalone inputs
InputStep ==
  /\ wf.phase = "forms"
  /\ wf.k > Len(dom.forms)
  /\ wf.k <= Len(dom.forms) + Len(InputsFound)
  /\ LET inp == InputsFound[wf.k - Len(dom.forms)]
     IN /\ pageErrors' = IF inp.reach = "ok" THEN Raised(inp) ELSE pageErrors
        /\ wf' = [wf EXCEPT
                    !.k = @ + 1,
                    !.issues =
                       IF inp.reach = "ok" /\ inp.js
                         THEN Append(@, Issue("triggered JS error on Enter",
                                              wf.k))
                       ELSE @]
  /\ UNCHANGED <<dom, kb, bugs, ledgerPc, commit, shotFailed, heard,
                 consoleErrors, consoleWarnings, failedRequests, runVars,
                 maxIterations>>
  /\ UNCHANGED <<keyVars, chanVars, actVars, loopVars, reports, linkVars,
                 serverVars>>

\* the end of testFormWorkflows: one bug for all its issues
FormsCommit ==
  /\ wf.phase = "forms"
  /\ wf.k > Len(dom.forms) + Len(InputsFound)
  /\ bugs' = IF wf.issues # <<>>
               THEN Committed(bugs,
                      WithDetails(Opts(StringOf(Len(wf.issues))
                                         \o <<"form workflow issue(s)">>,
                                       "High", "Functional", "form-workflow"),
                                  wf.issues))
               ELSE bugs
  /\ wf' = [wf EXCEPT !.phase = "done"]
  /\ UNCHANGED <<dom, kb, ledgerPc, commit, shotFailed, heard, accVars,
                 runVars, maxIterations>>
  /\ UNCHANGED <<keyVars, chanVars, actVars, loopVars, reports, linkVars,
                 serverVars>>

FormsStep == FormStep \/ InputStep \/ FormsCommit

\* the pages testFormWorkflows is run on
FormPages ==
  { [NoWidgets EXCEPT !.forms = fs, !.inputs = is] :
      fs \in SeqsUpTo(FormElements, MaxForms),
      is \in SeqsUpTo(InputElements, MaxInputs) }

\* ---------------------------------------------------------- testKeyboardNav
\* for (let i = 0; i < 15; i++)
TabPresses == 15

\* the focusable elements: id stands for tag, role and text
FocusElements == [id : 1..MaxElements, hasOutline : BOOLEAN]

\* the order focus moves in on Tab, round and round; Body where focus leaves
\* the elements of the page
Rings == SeqsUpTo(FocusElements \cup {Body}, MaxRing) \ {<<>>}

\* document.activeElement after the n-th press
Focused(ring, n) == ring[((n - 1) % Len(ring)) + 1]

\* new Set(focusedElements).size
UniqueFocused(strings) == Cardinality({strings[k] : k \in 1..Len(strings)})

\* uniqueFocused.size < 3 && focusedElements.length > 5
Stuck(focusedElements) ==
  UniqueFocused(focusedElements) < 3 /\ Len(focusedElements) > 5

\* one iteration: press Tab, read document.activeElement
KeyboardPress ==
  /\ kb.phase = "pressing"
  /\ kb.i < TabPresses
  /\ LET focused == Focused(kb.ring, kb.i + 1)
     IN kb' = [kb EXCEPT
                 !.i = @ + 1,
                 !.focusedElements =
                    IF focused # Body THEN Append(@, focused.id) ELSE @,
                 !.issues =
                    IF focused # Body /\ ~focused.hasOutline
                      THEN Append(@, Issue("No visible focus indicator",
                                           focused.id))
                    ELSE @]
  /\ pageErrors' = IF kb.raises /\ kb.i = 0 THEN Append(pageErrors, "e1")
                   ELSE pageErrors
  /\ UNCHANGED <<dom, wf, bugs, ledgerPc, commit, shotFailed, heard,
                 consoleErrors, consoleWarnings, failedRequests, runVars,
                 maxIterations>>
  /\ UNCHANGED <<keyVars, chanVars, actVars, loopVars, reports, linkVars,
                 serverVars>>

\* the issues of testKeyboardNav once the loop is over
KeyboardIssues ==
  kb.issues
  \o (IF Stuck(kb.focusedElements)
        THEN <<Issue("Focus appears stuck", 0)>> ELSE <<>>)
  \o (IF Len(pageErrors) > kb.errorsBefore
        THEN <<Issue("Keyboard navigation triggered JS error(s)",
                     Len(pageErrors) - kb.errorsBefore)>>
      ELSE <<>>)

\* after the loop: the stuck check, the WorkflowResult, the bug
KeyboardFinish ==
  /\ kb.phase = "pressing"
  /\ kb.i >= TabPresses
  /\ workflowResults' =
       Append(workflowResults,
              [name |-> <<"Keyboard Navigation">>, index |-> 1,
               passed |-> KeyboardIssues = <<>>,
               error |-> KeyboardIssues # <<>>])
  /\ bugs' = IF KeyboardIssues # <<>>
               THEN Committed(bugs,
                      WithDetails(Opts(StringOf(Len(KeyboardIssues))
                                         \o <<"keyboard navigation issue(s)">>,
                                       "Medium", "Accessibility",
                                       "keyboard-nav"),
                                  FirstN(KeyboardIssues, 15)))
               ELSE bugs
  /\ kb' = [kb EXCEPT !.phase = "done", !.issues = KeyboardIssues]
  /\ UNCHANGED <<dom, wf, ledgerPc, commit, shotFailed, heard, accVars,
                 pc, exitCode, url, response, browser, site, service,
                 reportWritten, faultBy, trace, oracleContacted,
                 maxIterations>>
  /\ UNCHANGED <<keyVars, chanVars, actVars, loopVars, reports, linkVars,
                 serverVars>>

KeyboardStep == KeyboardPress \/ KeyboardFinish

\* -------------------------------------------------------- checkBrokenLinks
\* an a[href] of the page, by what its href property reads
Link(k) == [scheme |-> "http", n |-> k]
MailLink == [scheme |-> "mailto", n |-> 0]

\* .filter(h => h.startsWith('http'))
Absolute(hrefs) == SelectSeq(hrefs, LAMBDA h : h.scheme = "http")

\* [...new Set(links)]: first occurrences, in order
RECURSIVE UniqueUpTo(_, _)
UniqueUpTo(links, k) ==
  IF k = 0 THEN <<>>
  ELSE LET before == UniqueUpTo(links, k - 1)
       IN IF \E j \in 1..(k - 1) : links[j] = links[k] THEN before
          ELSE Append(before, links[k])

Unique(links) == UniqueUpTo(links, Len(links))

ProbedLinks == 30
DetailLines == 20

AllLinks(links) == Unique(links)
\* const unique = [...new Set(links)].slice(0, 30)
LinksToProbe(links) == FirstN(Unique(links), ProbedLinks)

\* what page.request.head(href) does: the links of anchors.dead answer 400
\* or raise, the others answer 200 or 399
HeadOf(href) ==
  IF href.n \in anchors.dead
    THEN [raised |-> anchors.raises, status |-> 400]
  ELSE [raised |-> FALSE, status |-> IF href.n % 2 = 0 THEN 399 ELSE 200]

\* `${href} -> ${res.status()}` and `${href} -> timeout/network error`
BrokenLine(href, head) ==
  [href |-> href,
   what |-> IF head.raised THEN <<"timeout/network error">>
            ELSE StringOf(head.status)]

IsBroken(head) == head.raised \/ head.status >= 400

LinksIdle ==
  bl = [phase |-> "idle", unique |-> <<>>, k |-> 1, broken |-> <<>>,
        requests |-> <<>>]

\* page.evaluate and the first 30 distinct links
LinksCollect ==
  /\ pc = "checkBrokenLinks"
  /\ bl.phase = "collect"
  /\ bl' = [bl EXCEPT !.phase = "probe",
                      !.unique = LinksToProbe(Absolute(anchors.hrefs))]
  /\ UNCHANGED <<anchors, ledgerVars, accVars, runVars, widgetVars>>
  /\ UNCHANGED <<keyVars, chanVars, actVars, loopVars, reports, maxIterations,
                 serverVars>>

\* one turn of for (const href of unique)
LinksProbe ==
  /\ pc = "checkBrokenLinks"
  /\ bl.phase = "probe"
  /\ bl.k <= Len(bl.unique)
  /\ LET href == bl.unique[bl.k]
         head == HeadOf(href)
     IN bl' = [bl EXCEPT !.k = bl.k + 1,
                         !.requests = Append(bl.requests, href),
                         !.broken = IF IsBroken(head)
                                      THEN Append(bl.broken,
                                                  BrokenLine(href, head))
                                    ELSE bl.broken]
  /\ UNCHANGED <<anchors, ledgerVars, accVars, runVars, widgetVars>>
  /\ UNCHANGED <<keyVars, chanVars, actVars, loopVars, reports, maxIterations,
                 serverVars>>

\* if (broken.length) await addBug(...)
LinksCommit ==
  /\ pc = "checkBrokenLinks"
  /\ bl.phase = "probe"
  /\ bl.k > Len(bl.unique)
  /\ bugs' =
       IF bl.broken # <<>>
         THEN Committed(bugs,
                [title |-> StringOf(Len(bl.broken))
                             \o <<"broken / unreachable link(s)">>,
                 severity |-> IF Len(bl.broken) > 5 THEN "High" ELSE "Medium",
                 category |-> "Content",
                 evidenceLabel |-> "broken-links",
                 details |-> FirstN(bl.broken, DetailLines)])
       ELSE bugs
  /\ bl' = [bl EXCEPT !.phase = "done"]
  /\ trace' = Append(trace, pc)
  /\ Goto(After(pc))
  /\ UNCHANGED <<anchors, ledgerPc, commit, shotFailed, heard, accVars,
                 widgetVars>>
  /\ UNCHANGED <<response, browser, workflowResults, reportWritten,
                 oracleContacted>>
  /\ UNCHANGED <<keyVars, chanVars, actVars, loopVars, reports, serverVars>>
  /\ UNCHANGED <<url, site, service, maxIterations>>

LinksStep ==
  \/ LinksCollect
  \/ LinksProbe
  \/ LinksCommit

NoAnchors == [hrefs |-> <<>>, dead |-> {}, raises |-> FALSE]

\* how a page lists its n links: once each, twice each, or once each after a
\* mailto link and with the first link again at the end
Listed(n, shape) ==
  CASE shape = "plain" -> [k \in 1..n |-> Link(k)]
    [] shape = "twice" -> [k \in 1..(2 * n) |-> Link((k + 1) \div 2)]
    [] OTHER -> <<MailLink>> \o [k \in 1..n |-> Link(k)] \o <<Link(1)>>

\* the first or the last few of n links
DeadSets(n) == {1..c : c \in 0..n} \cup {c..n : c \in 1..n}

\* the pages: up to MaxLinks links of which the first or the last few are dead
LinkPages ==
  {p \in UNION {[hrefs : {Listed(n, shape) :
                            shape \in {"plain", "twice", "mixed"}},
                 dead : DeadSets(n),
                 raises : BOOLEAN] : n \in 0..MaxLinks} :
     p.dead = {} => ~p.raises}

\* ------------------------------------------------------------- host server
\* the scans are numbered in the order POST /api/scan creates them; the Map
\* scans iterates in that order
ScanIds == 1..MaxScanRequests

NullCode == 0 - 1     \* close(code = null, signal): the child was killed
SpawnFailed == 0 - 2  \* close after a spawn error

NoChild == [state |-> "none", signalled |-> FALSE, code |-> 0]

ServerIdle ==
  /\ scans = {}
  /\ scan = <<>>
  /\ children = [id \in ScanIds |-> NoChild]
  /\ posts = <<>>
  /\ cancels = <<>>

\* scan.process.kill('SIGTERM'): a child that has exited is not signalled
Killed(kids, id) ==
  IF kids[id].state = "alive" THEN [kids EXCEPT ![id].signalled = TRUE]
  ELSE kids

\* for (const s of scans.values()) if (s.status === 'running')
SomeRunning == \E id \in scans : scan[id].status = "running"

\* cleanupAllScans from the entry after cursor, up to the next fs.rm it
\* awaits (at = the scan being removed) or to the end of the Map (at = 0);
\* the iteration is live: it visits the entries present when it gets there
RECURSIVE CleanupFrom(_, _, _)
CleanupFrom(map, kids, cursor) ==
  LET later == {id \in map : id > cursor}
  IN IF later = {} THEN [map |-> map, kids |-> kids, at |-> 0]
     ELSE LET id == CHOOSE x \in later : \A y \in later : x <= y
              killed == IF scan[id].status = "running" /\ scan[id].process
                          THEN Killed(kids, id) ELSE kids
          IN IF scan[id].outputDir
               THEN [map |-> map, kids |-> killed, at |-> id]
             ELSE CleanupFrom(map \ {id}, killed, id)

\* the handler goes on after cleanupAllScans: scans.set(scanId, scan), then
\* it awaits fs.access
Registered(c) ==
  LET scanId == Len(scan) + 1
  IN /\ scans' = c.map \cup {scanId}
     /\ scan' = Append(scan, [status |-> "running", process |-> FALSE,
                              outputDir |-> FALSE])
     /\ children' = c.kids

\* the handler runs from cleanupAllScans at cursor to its next await
CleanedUp(c, r) ==
  IF c.at = 0
    THEN /\ Registered(c)
         /\ posts' = [posts EXCEPT ![r] = [pc |-> "access",
                                           scanId |-> Len(scan) + 1,
                                           code |-> 0]]
  ELSE /\ scans' = c.map
       /\ children' = c.kids
       /\ posts' = [posts EXCEPT ![r] = [pc |-> "rm", scanId |-> c.at,
                                         code |-> 0]]
       /\ UNCHANGED scan

notServer == <<ledgerVars, accVars, keyVars, chanVars, actVars, runVars,
               loopVars, maxIterations, widgetVars, reports, linkVars>>

\* app.post('/api/scan'): a request arrives, with or without a url
PostScan ==
  /\ Len(posts) < MaxScanRequests
  /\ \E hasUrl \in BOOLEAN :
       LET r == Len(posts) + 1
           arrived == Append(posts, [pc |-> "arrived", scanId |-> 0,
                                     code |-> 0])
       IN IF ~hasUrl \/ SomeRunning
            THEN /\ posts' = [arrived EXCEPT ![r].pc = "replied",
                                             ![r].code = IF ~hasUrl THEN 400
                                                         ELSE 409]
                 /\ UNCHANGED <<scans, scan, children>>
          ELSE LET c == CleanupFrom(scans, children, 0)
               IN IF c.at = 0
                    THEN /\ Registered(c)
                         /\ posts' = [arrived EXCEPT ![r].pc = "access",
                                                     ![r].scanId =
                                                        Len(scan) + 1]
                  ELSE /\ scans' = c.map
                       /\ children' = c.kids
                       /\ posts' = [arrived EXCEPT ![r].pc = "rm",
                                                   ![r].scanId = c.at]
                       /\ UNCHANGED scan
  /\ UNCHANGED cancels
  /\ UNCHANGED notServer

\* the fs.rm cleanupScan awaits is over: scans.delete(scanId), and
\* cleanupAllScans goes on with the next entry
RmDone ==
  /\ \E r \in 1..Len(posts) :
       /\ posts[r].pc = "rm"
       /\ CleanedUp(CleanupFrom(scans \ {posts[r].scanId}, children,
                                posts[r].scanId), r)
  /\ UNCHANGED cancels
  /\ UNCHANGED notServer

\* fs.access is over: spawn('node', ...), scan.process = child, res.json
AccessDone ==
  /\ \E r \in 1..Len(posts) :
       /\ posts[r].pc = "access"
       /\ \E spawned \in {"alive", "failing"} :
            children' = [children EXCEPT ![posts[r].scanId] =
                           [state |-> spawned, signalled |-> FALSE,
                            code |-> 0]]
       /\ scan' = [scan EXCEPT ![posts[r].scanId].process = TRUE]
       /\ posts' = [posts EXCEPT ![r].pc = "replied", ![r].code = 200]
  /\ UNCHANGED <<scans, cancels>>
  /\ UNCHANGED notServer

\* child.on('error'): the process could not be spawned; Node emits close
\* after it
ChildError ==
  /\ \E id \in ScanIds :
       /\ children[id].state = "failing"
       /\ scan' = [scan EXCEPT ![id].status = "error", ![id].process = FALSE]
       /\ children' = [children EXCEPT ![id].state = "exited",
                                       ![id].code = SpawnFailed]
  /\ UNCHANGED <<scans, posts, cancels>>
  /\ UNCHANGED notServer

\* child.stdout.on('data'): the agent printed its 'Run ID :' line
ChildStdout ==
  /\ \E id \in ScanIds :
       /\ children[id].state = "alive"
       /\ ~scan[id].outputDir
       /\ scan' = [scan EXCEPT ![id].outputDir = TRUE]
  /\ UNCHANGED <<scans, children, posts, cancels>>
  /\ UNCHANGED notServer

\* the agent process ends: by the signal when one was sent, else with the
\* exit code of its run
ChildExit ==
  /\ \E id \in ScanIds :
       /\ children[id].state = "alive"
       /\ \E code \in IF children[id].signalled THEN {NullCode} ELSE {0, 1} :
            children' = [children EXCEPT ![id].state = "exited",
                                         ![id].code = code]
  /\ UNCHANGED <<scans, scan, posts, cancels>>
  /\ UNCHANGED notServer

\* scan.status = code === 0 ? 'complete' : 'error'
StatusOnClose(code) == IF code = 0 THEN "complete" ELSE "error"

\* child.on('close')
ChildClose ==
  /\ \E id \in ScanIds :
       /\ children[id].state = "exited"
       /\ scan' = [scan EXCEPT
                     ![id].status = StatusOnClose(children[id].code),
                     ![id].process = FALSE]
       /\ children' = [children EXCEPT ![id].state = "closed"]
  /\ UNCHANGED <<scans, posts, cancels>>
  /\ UNCHANGED notServer

\* app.post('/api/scans/:id/cancel')
CancelScan ==
  /\ Len(cancels) < MaxCancels
  /\ \E id \in ScanIds :
       IF id \notin scans
         THEN /\ cancels' = Append(cancels, [scanId |-> id, code |-> 404])
              /\ UNCHANGED <<scan, children>>
       ELSE IF scan[id].status # "running" \/ ~scan[id].process
         THEN /\ cancels' = Append(cancels, [scanId |-> id, code |-> 400])
              /\ UNCHANGED <<scan, children>>
       ELSE /\ children' = Killed(children, id)
            /\ scan' = [scan EXCEPT ![id].status = "error"]
            /\ cancels' = Append(cancels, [scanId |-> id, code |-> 200])
  /\ UNCHANGED <<scans, posts>>
  /\ UNCHANGED notServer

ServerStep ==
  \/ PostScan
  \/ RmDone
  \/ AccessDone
  \/ ChildError
  \/ ChildStdout
  \/ ChildExit
  \/ ChildClose
  \/ CancelScan

\* ============================================================ specifications
vars == <<bugs, consoleErrors, consoleWarnings, pageErrors, failedRequests,
          ledgerPc, commit, shotFailed, heard, envKey, geminiModel,
          geminiVisionModel, now, lastLLMCall, oc, calls, lastReqAt, reqGap,
          act, pc, exitCode, url, response, browser, site, service,
          workflowResults, reportWritten, faultBy, trace, oracleContacted, i,
          consecutiveDone, action, result, planText, plans, planQueries,
          actsExecuted, loopEnd, maxIterations, dom, wf, kb, reports, anchors,
          bl, scans, scan, children, posts, cancels, page, turn>>

LedgerIdle ==
  /\ bugs = <<>>
  /\ ledgerPc = "idle"
  /\ commit = NULL
  /\ shotFailed = FALSE
  /\ heard = FALSE

AccumulatorsEmpty ==
  /\ consoleErrors = <<>>
  /\ consoleWarnings = <<>>
  /\ pageErrors = <<>>
  /\ failedRequests = <<>>

\* the process starts at least LLM_MIN_DELAY after the epoch lastLLMCall
\* starts at (Date.now() is far from 0)
ChannelIdle ==
  /\ now = LLM_MIN_DELAY
  /\ lastLLMCall = 0
  /\ oc = IdleCall
  /\ calls = 0
  /\ lastReqAt = NoTime
  /\ reqGap = NoTime

\* main has not started, the loop has not been entered
RunIdle ==
  /\ pc = "initGemini"
  /\ exitCode = 0
  /\ faultBy = "none"
  /\ trace = <<>>
  /\ response = NoResponse
  /\ browser = "none"
  /\ workflowResults = <<>>
  /\ reportWritten = FALSE
  /\ oracleContacted = FALSE

LoopIdle ==
  /\ i = 0
  /\ consecutiveDone = 0
  /\ action = NoAction
  /\ result = NotRun
  /\ planText = EmptyText
  /\ plans = <<>>
  /\ planQueries = 0
  /\ actsExecuted = 0
  /\ loopEnd = "none"
  /\ page = "base"
  /\ turn = TurnIdle

\* the inputs of a run the component specifications do not read
NoInputs ==
  /\ url = "https://site"
  /\ site = PlainSite
  /\ service = "down"
  /\ maxIterations = MainIterations
  /\ dom = NoWidgets
  /\ WidgetsIdle
  /\ reports = <<>>
  /\ anchors = NoAnchors
  /\ LinksIdle
  /\ ServerIdle

\* the state initGemini leaves
KeysRead ==
  /\ geminiModel = InitGeminiText
  /\ geminiVisionModel = InitGeminiVision

LedgerInit ==
  /\ RunIdle
  /\ LoopIdle
  /\ NoInputs
  /\ ActIdle
  /\ LedgerIdle
  /\ AccumulatorsEmpty
  /\ ChannelIdle
  /\ envKey = UNSET
  /\ KeysRead

LedgerStep ==
  \/ AddBugBegin
  \/ AddBugResume
  \/ ResponsiveBegin
  \/ ResponsiveResume
  \/ Listeners

LedgerNext == LedgerStep

\* commits and listener callbacks of one run, interleaved
SpecLedger == LedgerInit /\ [][LedgerNext]_vars

OracleInit ==
  /\ RunIdle
  /\ LoopIdle
  /\ NoInputs
  /\ ActIdle
  /\ LedgerIdle
  /\ AccumulatorsEmpty
  /\ ChannelIdle
  /\ envKey \in {UNSET, "", "AIza"}
  /\ KeysRead

OracleNext == ChannelStep

\* a run's oracle calls, one after the other, against the clock
SpecOracle == OracleInit /\ [][OracleNext]_vars

ActionInit ==
  /\ RunIdle
  /\ LoopIdle
  /\ NoInputs
  /\ ActInit
  /\ LedgerIdle
  /\ AccumulatorsEmpty
  /\ ChannelIdle
  /\ envKey = "AIza"
  /\ KeysRead

ActionNext == ExecuteStep

\* executeLLMAction applied to every action record and world
SpecAction == ActionInit /\ [][ActionNext]_vars

\* the state at process start: the models are null until initGemini runs
MainInit ==
  /\ ActIdle
  /\ LedgerIdle
  /\ AccumulatorsEmpty
  /\ ChannelIdle
  /\ RunIdle
  /\ LoopIdle
  /\ geminiModel = NULL
  /\ geminiVisionModel = NULL
  /\ url \in Urls
  /\ maxIterations = MainIterations
  /\ dom = NoWidgets
  /\ WidgetsIdle
  /\ reports = <<>>
  /\ anchors = NoAnchors
  /\ LinksIdle
  /\ ServerIdle
  /\ \/ envKey \in {UNSET, "", "AIza"} /\ service = "down" /\ site \in Sites
     \/ envKey = "AIza" /\ service = "up" /\ site = PlainSite

MainNext == MainStep \/ LoopStep

\* one run of main, the exploration loop included
Spec == MainInit /\ [][MainNext]_vars

\* the browser is launched and the listeners are attached: the page's events
\* arrive between the steps of main until the browser is closed
PageEvent ==
  /\ browser = "open"
  /\ Listeners

\* a run without a key on a page that logs while it loads or does not
ListeningInit ==
  /\ ActIdle
  /\ LedgerIdle
  /\ AccumulatorsEmpty
  /\ ChannelIdle
  /\ RunIdle
  /\ LoopIdle
  /\ geminiModel = NULL
  /\ geminiVisionModel = NULL
  /\ url = "https://site"
  /\ maxIterations = MainIterations
  /\ dom = NoWidgets
  /\ WidgetsIdle
  /\ reports = <<>>
  /\ anchors = NoAnchors
  /\ LinksIdle
  /\ ServerIdle
  /\ envKey = UNSET
  /\ service = "down"
  /\ site \in { s \in Sites :
                  /\ s.status = 200
                  /\ s.targets = 0
                  /\ s.issues \subseteq {"checkConsoleErrors",
                                         "checkNetworkFailures"} }

ListeningNext == MainStep \/ PageEvent

\* one run of main with the listeners' callbacks between its steps
SpecListening == ListeningInit /\ [][ListeningNext]_vars

\* llmAutonomousExploration is entered: main has run up to its gate on a
\* plain page with a key configured
LoopInit ==
  /\ ActIdle
  /\ LedgerIdle
  /\ AccumulatorsEmpty
  /\ ChannelIdle
  /\ LoopIdle
  /\ envKey = "AIza"
  /\ KeysRead
  /\ url = "https://site"
  /\ site = PlainSite
  /\ service \in {"up", "down"}
  /\ maxIterations \in 1..MaxIterations
  /\ dom = NoWidgets
  /\ WidgetsIdle
  /\ reports = <<>>
  /\ anchors = NoAnchors
  /\ LinksIdle
  /\ ServerIdle
  /\ pc = "understand"
  /\ exitCode = 0
  /\ faultBy = "none"
  /\ trace = SubSeq(MainOrder, 1, IndexOf(MainOrder, "llm"))
  /\ response = 200
  /\ browser = "open"
  /\ workflowResults = <<>>
  /\ reportWritten = FALSE
  /\ oracleContacted = FALSE

LoopNext == LoopStep \/ DriverFault

\* the exploration loop from its entry to its exit
SpecLoop == LoopInit /\ [][LoopNext]_vars

\* every await of the loop settles: the oracle call returns after at most a
\* throttle wait, a backoff and two requests, the driver calls time out
FairSpecLoop == SpecLoop /\ WF_vars(LoopNext)

\* the loop on a lively site with a steady service; the page has logged an
\* error while it loaded or none, and the URL typed has a scheme or none
TurnInit ==
  /\ ActIdle
  /\ LedgerIdle
  /\ consoleErrors \in {<<>>, <<"e1">>}
  /\ consoleWarnings = <<>>
  /\ pageErrors = <<>>
  /\ failedRequests = <<>>
  /\ ChannelIdle
  /\ LoopIdle
  /\ envKey = "AIza"
  /\ KeysRead
  /\ url \in {"https://site", "site"}
  /\ site = LivelySite
  /\ service = "steady"
  /\ maxIterations = MainIterations
  /\ dom = NoWidgets
  /\ WidgetsIdle
  /\ reports = <<>>
  /\ anchors = NoAnchors
  /\ LinksIdle
  /\ ServerIdle
  /\ pc = "understand"
  /\ exitCode = 0
  /\ faultBy = "none"
  /\ trace = SubSeq(MainOrder, 1, IndexOf(MainOrder, "llm"))
  /\ response = 200
  /\ browser = "open"
  /\ workflowResults = <<>>
  /\ reportWritten = FALSE
  /\ oracleContacted = FALSE

\* the turns of the loop on a lively site
SpecTurn == TurnInit /\ [][LoopNext]_vars

\* the sites of the detector pass: up to two detectors find up to
\* MaxClasses classes of up to MaxEach issues
DetectorSites ==
  [status : {200}, targets : {0},
   issues : {s \in IssueSets(2) : s \subseteq Range(Detectors)},
   lively : {FALSE}, classes : 1..MaxClasses, each : 1..MaxEach]

\* the signals a run has accumulated when the final pass begins
FinalSignals ==
  [consoleErrors : {<<>>, <<"e1">>, <<"e1", "e2">>},
   pageErrors : {<<>>, <<"e1">>},
   consoleWarnings : {<<>>, [k \in 1..11 |-> "w"]},
   failedRequests :
     {<<>>,
      <<[url |-> "u", method |-> "GET", resourceType |-> "fetch",
         failure |-> "net"]>>,
      <<[url |-> "u", method |-> "GET", resourceType |-> "image",
         status |-> 404],
        [url |-> "v", method |-> "GET", resourceType |-> "xhr",
         status |-> 500]>>}]

\* main is at the first detector of the detector pass, with or without a
\* response, or at the first detector of the final aggregate pass
DetectorInit ==
  /\ ActIdle
  /\ LedgerIdle
  /\ ChannelIdle
  /\ LoopIdle
  /\ envKey = UNSET
  /\ KeysRead
  /\ url = "https://site"
  /\ service = "down"
  /\ maxIterations = MainIterations
  /\ dom = NoWidgets
  /\ WidgetsIdle
  /\ reports = <<>>
  /\ anchors = NoAnchors
  /\ LinksIdle
  /\ ServerIdle
  /\ exitCode = 0
  /\ faultBy = "none"
  /\ browser = "open"
  /\ workflowResults = <<>>
  /\ reportWritten = FALSE
  /\ oracleContacted = FALSE
  /\ \/ /\ pc = "checkSEO"
        /\ site \in DetectorSites
        /\ response \in {NoResponse, 200}
        /\ AccumulatorsEmpty
        /\ trace = SubSeq(MainOrder, 1, IndexOf(MainOrder, "settle"))
     \/ /\ pc = "checkConsoleErrors"
        /\ site = PlainSite
        /\ response = 200
        /\ \E s \in FinalSignals :
             /\ consoleErrors = s.consoleErrors
             /\ pageErrors = s.pageErrors
             /\ consoleWarnings = s.consoleWarnings
             /\ failedRequests = s.failedRequests
        /\ trace = SubSeq(MainOrder, 1,
                          IndexOf(MainOrder, "checkConsoleErrors") - 1)

DetectorNext == Detector \/ CheckConsoleErrors \/ CheckNetworkFailures

\* the detector pass and the final aggregate pass
SpecDetectors == DetectorInit /\ [][DetectorNext]_vars

\* main stands at testDropdownsAndTabs, on a page with widgets
WidgetInit ==
  /\ ActIdle
  /\ LedgerIdle
  /\ AccumulatorsEmpty
  /\ ChannelIdle
  /\ LoopIdle
  /\ envKey = UNSET
  /\ KeysRead
  /\ url = "https://site"
  /\ site = [PlainSite EXCEPT !.targets = 1]
  /\ service = "down"
  /\ maxIterations = MainIterations
  /\ dom \in WidgetPages
  /\ wf = [phase |-> "tabs", k |-> 1, issues |-> <<>>]
  /\ kb = KeyboardIdle
  /\ reports = <<>>
  /\ anchors = NoAnchors
  /\ LinksIdle
  /\ ServerIdle
  /\ pc = "testDropdownsAndTabs"
  /\ exitCode = 0
  /\ faultBy = "none"
  /\ trace = SubSeq(MainOrder, 1, IndexOf(MainOrder, "testModals"))
  /\ response = 200
  /\ browser = "open"
  /\ workflowResults = <<>>
  /\ reportWritten = FALSE
  /\ oracleContacted = FALSE

WidgetNext == WidgetStep

\* main has entered testFormWorkflows on a page of FormPages
FormsInit ==
  /\ ActIdle
  /\ LedgerIdle
  /\ AccumulatorsEmpty
  /\ ChannelIdle
  /\ LoopIdle
  /\ envKey = UNSET
  /\ KeysRead
  /\ url = "https://site"
  /\ site = [PlainSite EXCEPT !.targets = 1]
  /\ service = "down"
  /\ maxIterations = MainIterations
  /\ dom \in FormPages
  /\ wf = [phase |-> "forms", k |-> 1, issues |-> <<>>]
  /\ kb = KeyboardIdle
  /\ reports = <<>>
  /\ anchors = NoAnchors
  /\ LinksIdle
  /\ ServerIdle
  /\ pc = "testFormWorkflows"
  /\ exitCode = 0
  /\ faultBy = "none"
  /\ trace = SubSeq(MainOrder, 1, IndexOf(MainOrder, "testFormWorkflows") - 1)
  /\ response = 200
  /\ browser = "open"
  /\ workflowResults = <<>>
  /\ reportWritten = FALSE
  /\ oracleContacted = FALSE

FormsNext == FormsStep

SpecForms == FormsInit /\ [][FormsNext]_vars

\* main has entered testKeyboardNav on a page with focus order ring
KeyboardInit ==
  /\ ActIdle
  /\ LedgerIdle
  /\ consoleErrors = <<>>
  /\ consoleWarnings = <<>>
  /\ failedRequests = <<>>
  /\ pageErrors \in {<<>>, <<"e0">>}
  /\ ChannelIdle
  /\ LoopIdle
  /\ envKey = UNSET
  /\ KeysRead
  /\ url = "https://site"
  /\ site = PlainSite
  /\ service = "down"
  /\ maxIterations = MainIterations
  /\ dom = NoWidgets
  /\ wf = [phase |-> "idle", k |-> 1, issues |-> <<>>]
  /\ \E ring \in Rings, raises \in BOOLEAN :
       kb = [KeyboardIdle EXCEPT !.phase = "pressing", !.ring = ring,
                                 !.raises = raises,
                                 !.errorsBefore = Len(pageErrors)]
  /\ reports = <<>>
  /\ anchors = NoAnchors
  /\ LinksIdle
  /\ ServerIdle
  /\ pc = "testKeyboardNav"
  /\ exitCode = 0
  /\ faultBy = "none"
  /\ trace = SubSeq(MainOrder, 1, IndexOf(MainOrder, "testKeyboardNav") - 1)
  /\ response = 200
  /\ browser = "open"
  /\ workflowResults = <<>>
  /\ reportWritten = FALSE
  /\ oracleContacted = FALSE

KeyboardNext == KeyboardStep

SpecKeyboard == KeyboardInit /\ [][KeyboardNext]_vars

\* main has reached checkBrokenLinks on a page of LinkPages
LinksInit ==
  /\ ActIdle
  /\ LedgerIdle
  /\ AccumulatorsEmpty
  /\ ChannelIdle
  /\ LoopIdle
  /\ envKey = UNSET
  /\ KeysRead
  /\ url = "https://site"
  /\ site = PlainSite
  /\ service = "down"
  /\ maxIterations = MainIterations
  /\ dom = NoWidgets
  /\ WidgetsIdle
  /\ reports = <<>>
  /\ anchors \in LinkPages
  /\ ServerIdle
  /\ bl = [phase |-> "collect", unique |-> <<>>, k |-> 1, broken |-> <<>>,
           requests |-> <<>>]
  /\ pc = "checkBrokenLinks"
  /\ exitCode = 0
  /\ faultBy = "none"
  /\ trace = SubSeq(MainOrder, 1, IndexOf(MainOrder, "checkBrokenLinks") - 1)
  /\ response = 200
  /\ browser = "open"
  /\ workflowResults = <<>>
  /\ reportWritten = FALSE
  /\ oracleContacted = FALSE

LinksNext == LinksStep

\* checkBrokenLinks over the links of a page
SpecLinks == LinksInit /\ [][LinksNext]_vars

\* the host server has started; no agent runs in this process
ServerInit ==
  /\ ActIdle
  /\ LedgerIdle
  /\ AccumulatorsEmpty
  /\ ChannelIdle
  /\ RunIdle
  /\ LoopIdle
  /\ envKey = UNSET
  /\ KeysRead
  /\ NoInputs

ServerNext == ServerStep

\* the host server under scan, cancel and child-process events
SpecServer == ServerInit /\ [][ServerNext]_vars

\* the ledgers a run can leave: up to MaxReportBugs commits of any severity
ReportFindings ==
  {Opts(<<"finding">>, s, c, "finding") :
     s \in Severities, c \in {"Functional", "Content"}}

RECURSIVE CommittedAll(_, _)
CommittedAll(ledger, findings) ==
  IF findings = <<>> THEN ledger
  ELSE CommittedAll(Committed(ledger, Head(findings)), Tail(findings))

ReportLedgers ==
  {CommittedAll(<<>>, f) : f \in SeqsUpTo(ReportFindings, MaxReportBugs)}

\* main has reached writeReport
ReportInit ==
  /\ ActIdle
  /\ LedgerIdle!2
  /\ LedgerIdle!3
  /\ LedgerIdle!4
  /\ LedgerIdle!5
  /\ bugs \in ReportLedgers
  /\ consoleErrors \in {<<>>, <<"error">>}
  /\ consoleWarnings = <<>>
  /\ pageErrors = <<>>
  /\ failedRequests = <<>>
  /\ ChannelIdle
  /\ LoopIdle
  /\ envKey \in {UNSET, "AIza"}
  /\ KeysRead
  /\ url = "https://site"
  /\ site = PlainSite
  /\ service \in {"up", "down"}
  /\ maxIterations = MainIterations
  /\ dom = NoWidgets
  /\ WidgetsIdle
  /\ reports = <<>>
  /\ anchors = NoAnchors
  /\ LinksIdle
  /\ ServerIdle
  /\ pc = "writeReport"
  /\ exitCode = 0
  /\ faultBy = "none"
  /\ trace = SubSeq(MainOrder, 1, IndexOf(MainOrder, "checkNetworkFailures"))
  /\ response = 200
  /\ browser = "open"
  /\ workflowResults \in {<<>>, <<WorkflowResult("testModals", 1, FALSE)>>}
  /\ reportWritten = FALSE
  /\ oracleContacted = FALSE

ReportNext == ReportCompile \/ ReportTick

\* writeReport over the ledgers, accumulators and results of a finished run
SpecReport == ReportInit /\ [][ReportNext]_vars

\* testDropdownsAndTabs and testWalletFlow over the widgets of a page
SpecWidgets == WidgetInit /\ [][WidgetNext]_vars

\* ---------------------------------------------------------------------- C1
DigitValue(c) == CHOOSE d \in 0..9 : Digits[d + 1] = c

IsDigit(c) == \E d \in 0..9 : Digits[d + 1] = c

\* C1: the k-th entry of the ledger has id "BUG-" followed by k written with
\* three digits (zero-padded), so the ids are BUG-001..BUG-N without gap or
\* repeat, also when listeners fired while a commit was suspended.
C1_ContiguousIds ==
  \A k \in 1..Len(bugs) :
    LET id == bugs[k].id
    IN /\ Len(id) = 7
       /\ SubSeq(id, 1, 4) = <<"B", "U", "G", "-">>
       /\ \A j \in 5..7 : IsDigit(id[j])
       /\ 100 * DigitValue(id[5]) + 10 * DigitValue(id[6]) + DigitValue(id[7]) = k

C1_Witness ==
  /\ Len(bugs) >= 10
  /\ heard
  /\ \E k \in 1..Len(bugs) : bugs[k].category = "Layout"

\* ---------------------------------------------------------------------- C2
\* C2: every committed entry has a non-empty evidence list, and a commit whose
\* screenshot capture fails still happens: the resumed commit appends exactly
\* one entry, carrying one evidence path.
C2_EvidenceAlways ==
  /\ [](\A k \in 1..Len(bugs) : Len(bugs[k].evidence) >= 1)
  /\ [][ (ledgerPc # "idle" /\ ledgerPc' = "idle") =>
           /\ Len(bugs') = Len(bugs) + 1
           /\ Len(bugs'[Len(bugs')].evidence) = 1 ]_vars

C2_Witness ==
  /\ shotFailed
  /\ Len(bugs) >= 1
  /\ Len(bugs[Len(bugs)].evidence) = 1
\* ---------------------------------------------------------------------- C9
\* C9: any two successive requests to the oracle service start at least
\* LLM_MIN_DELAY apart, the retry after a backoff and the request after it
\* included.
C9_MinDelayBetweenRequests == reqGap = NoTime \/ reqGap >= LLM_MIN_DELAY

\* ---------------------------------------------------------------------- C10
RateLimitSignals == {"[429 Too Many Requests]", "RESOURCE_EXHAUSTED: quota"}

\* C10: an oracle call sends at most two requests, the second only after the
\* first failed with a rate-limit signal and the 15 s backoff elapsed; a call
\* whose last step failed returns the empty text; no call raises.
C10_BoundedRetry ==
  /\ [](/\ oc.reqs <= 2
        /\ ~oc.thrown
        /\ (oc.reqs = 2 => oc.reqErr \in RateLimitSignals)
        /\ (oc.pc = "returned" /\ ~oc.lastOk => oc.ret = EmptyText))
  /\ [][ (oc.reqs = 1 /\ oc'.reqs = 2) =>
           /\ oc.pc = "backoff"
           /\ now - oc.caughtAt >= 15 ]_vars

C10_Witness ==
  /\ oc.pc = "returned"
  /\ oc.reqs = 2
  /\ ~oc.lastOk
  /\ oc.ret = EmptyText
\* ---------------------------------------------------------------------- C3
\* whether the call had a driver call to make, and how that call settled
Attempt(a, w) ==
  LET targeted == a.action \in {"click", "fill", "hover"}
      named == a.text # "" \/ a.selector # ""
  IN IF a.action \notin {"click", "fill", "scroll", "hover", "navigate", "press_key"}
       THEN "none"
     ELSE IF targeted /\ ~named THEN "none"
     ELSE IF a.action = "navigate" /\ a.url = "" THEN "none"
     ELSE IF targeted /\ w.target # "visible" THEN "failed"
     ELSE IF w.driver # "ok" THEN "failed"
     ELSE "done"

\* C3: for every action kind (an unknown one too) and every target,
\* executeLLMAction returns an outcome record and raises nothing; the record
\* has error = true whenever the action was not performed (no driver call
\* to make other than for `done`, or the driver call failed).
C3_NeverThrows ==
  act.phase = "settled" =>
    /\ ~act.result.thrown
    /\ (Attempt(act.action, act.world) = "failed" => act.result.error)
    /\ (Attempt(act.action, act.world) = "none" /\ act.action.action # "done"
          => act.result.error)
    /\ (Attempt(act.action, act.world) = "done" => ~act.result.error)

C3_Witness ==
  /\ act.phase = "settled"
  /\ act.action.action = "hover"
  /\ act.action.selector = "#buy"
  /\ act.world.target = "missing"
  /\ act.result.error
  /\ ~act.result.thrown

\* ---------------------------------------------------------------------- C4
\* C4: no oracle outcome is fatal to the run: whatever the oracle answers
\* (a failure, the empty text, text that is not JSON, JSON of another
\* shape), no fault it causes reaches main's catch, so the run goes on to
\* the final aggregate detectors and the report.
C4_OracleNeverFatal == faultBy # "oracle"

\* ---------------------------------------------------------------------- C5
AiTagged(entry) == entry.title[1] \in {"[AI] ", "[AI Visual] "}

\* main came out of its last workflow and no driver call has failed
PastWorkflows ==
  /\ pc \in {"checkConsoleErrors", "checkNetworkFailures", "writeReport",
             "close", "finally"}
     \/ (pc = "exited" /\ faultBy = "none")
  /\ faultBy \in {"none", "driver"}
  /\ "testScrollInteractions" \in Range(trace)

ResultsOf(p) == SelectSeq(workflowResults, LAMBDA r : r.name = <<p>>)

\* C5: without a configured credential no request is ever sent to the
\* oracle, no ledger entry carries an oracle tag, no workflow result is an
\* exploration-loop entry, and once main is past its workflows all nine have
\* run, in main's order, each with its results recorded (one result for the
\* crawler, the keyboard and the scroll workflow, one per exercised target
\* for the others).
C5_NoCredentialNoOracle ==
  envKey \in {UNSET, ""} =>
    /\ ~oracleContacted
    /\ \A k \in 1..Len(bugs) : ~AiTagged(bugs[k])
    /\ \A k \in 1..Len(workflowResults) : workflowResults[k].name[1] # "AI Action"
    /\ pc \notin LoopPcs
    /\ PastWorkflows =>
         /\ SelectSeq(trace, LAMBDA p : p \in Range(Workflows)) = Workflows
         /\ \A p \in Range(Workflows) :
              Len(ResultsOf(p)) = IF p \in FixedWorkflows THEN 1 ELSE site.targets

C5_Witness ==
  /\ envKey = UNSET
  /\ pc = "exited"
  /\ exitCode = 0
  /\ reportWritten
  /\ site.targets > 0
  /\ "testFormWorkflows" \in site.issues
  /\ Len(workflowResults) = 3 + 6 * site.targets
  /\ Len(bugs) > 0

\* ---------------------------------------------------------------------- C6
\* C6: the loop issues at most maxIterations PLAN queries and executes at
\* most maxIterations actions, and once entered it always leaves its
\* iterations (by the cap, by two `done` plans in a row, or by a fault),
\* whatever plans the oracle returns.
C6_BoundedLoop ==
  /\ [](planQueries <= maxIterations /\ actsExecuted <= maxIterations)
  /\ (pc = "understand") ~> (pc \notin {"understand", "plan", "act", "judge"})

C6_Witness ==
  /\ maxIterations = MaxIterations
  /\ planQueries = maxIterations
  /\ actsExecuted = maxIterations
  /\ loopEnd = "cap"
  /\ pc = "finalVisual"

\* ---------------------------------------------------------------------- C7
RECURSIVE TrailingDone(_)
TrailingDone(ps) ==
  IF ps = <<>> \/ ps[Len(ps)] # "done" THEN 0
  ELSE 1 + TrailingDone(SubSeq(ps, 1, Len(ps) - 1))

\* C7: the loop is left by its break exactly when the two latest plans are
\* both `done`; consecutiveDone counts only the `done` plans at the end of
\* the plan sequence (a plan that is not `done` resets it); and a `done`
\* that does not follow a `done` executes no action, records no workflow
\* result and does not break the loop.
C7_TwoConsecutiveDone ==
  /\ [](loopEnd = "break" <=> TrailingDone(plans) >= 2)
  /\ [](TrailingDone(plans) >= 2 => pc \notin {"plan", "act", "judge"})
  /\ [](loopEnd # "fault" => consecutiveDone = TrailingDone(plans))
  /\ [][(pc = "plan" /\ faultBy' = "none" /\ PlanKind(action') = "done"
           /\ TrailingDone(plans) = 0)
          => /\ actsExecuted' = actsExecuted
             /\ workflowResults' = workflowResults
             /\ bugs' = bugs
             /\ pc' # "act"
             /\ loopEnd' # "break"]_vars

C7_Witness ==
  /\ plans = <<"done", "click", "done">>
  /\ loopEnd = "cap"
  /\ actsExecuted = 1
  /\ Len(workflowResults) = 1

\* ---------------------------------------------------------------------- C8
\* the text, fences stripped, is one JSON object with an action of the
\* seven kinds and a reasoning
WellShapedPlan(raw) ==
  LET cleaned == StripFences(raw)
  IN /\ Len(cleaned) = 1
     /\ cleaned[1].t = "json"
     /\ cleaned[1].v.k = "object"
     /\ Has(cleaned[1].v.o, "action")
     /\ cleaned[1].v.o.action \in ActionKinds
     /\ Has(cleaned[1].v.o, "reasoning")

\* C8: whenever the PLAN response is not a well-shaped action record (the
\* empty text of a failed call included), the action getNextTestAction
\* returned is `done`, and the turn executes no action.
C8_UnparsedPlanIsDone ==
  (planQueries > 0 /\ ~WellShapedPlan(planText)) =>
    /\ PlanKind(action) = "done"
    /\ pc # "act"

\* ---------------------------------------------------------------------- C11
\* the order the phases are declared to run in: the exploration loop after
\* the deterministic workflows
DeclaredOrder ==
  <<"initGemini", "askUrl", "launch", "navigate", "settle">> \o Detectors \o
  Workflows \o
  <<"llm", "checkConsoleErrors", "checkNetworkFailures", "writeReport", "close">>

\* C11: the phases of a run execute in the declared order (navigation,
\* settle, detectors, deterministic workflows, then the oracle-steered loop
\* if enabled, final console/network detectors, report), and the loop never
\* starts before the deterministic workflows have finished.
C11_DeclaredPhaseOrder ==
  /\ \A j, k \in 1..Len(trace) :
       j < k => IndexOf(DeclaredOrder, trace[j]) < IndexOf(DeclaredOrder, trace[k])
  /\ pc \in LoopPcs => "testScrollInteractions" \in Range(trace)

\* ---------------------------------------------------------------------- C12
\* the widget a recorded result is about
TargetOfResult(r) ==
  CASE r.name[1] = "Tab switch" -> TabsFound[r.index]
    [] r.name[1] = "Dropdown" -> DropdownsFound[r.index]
    [] r.name[1] = "Wallet/Connect" -> ConnectsFound[r.index]

\* an anomaly was observed for the result's target: a JS-error increment, or
\* a missing state transition (a tab seen not to become active, a dropdown
\* with a popup that did not open, a connect panel without options)
AnomalyObserved(r) ==
  LET el == TargetOfResult(r)
  IN \/ el.js
     \/ r.name[1] = "Tab switch" /\ BecameActive(el) = "no"
     \/ r.name[1] = "Dropdown" /\ el.hasPopup /\ ~el.opens
     \/ r.name[1] = "Wallet/Connect" /\ el.panel = "empty"

\* C12: every recorded workflow result for whose target an anomaly was
\* observed has passed = false.
C12_AnomalyFailsResult ==
  \A k \in 1..Len(workflowResults) :
    AnomalyObserved(workflowResults[k]) => ~workflowResults[k].passed

\* ---------------------------------------------------------------------- C13
\* the tabs of the discovery the loop has been through
TabsHandled ==
  SubSeq(TabsFound, 1, IF wf.phase = "tabs" THEN wf.k - 1 ELSE Len(TabsFound))

\* C13: every discovered inactive tab that was clicked and did not gain an
\* active-state marker has a result with passed = false, and the workflow's
\* issues name the tab.
C13_StuckTabFails ==
  wf.phase \in {"tabs", "dropdowns"} =>
    \A k \in 1..Len(TabsHandled) :
      LET tab == TabsHandled[k]
      IN (tab.reach = "ok" /\ ~tab.gains) =>
           /\ \E j \in 1..Len(workflowResults) :
                /\ workflowResults[j].name = <<"Tab switch", tab.text>>
                /\ ~workflowResults[j].passed
           /\ \E j \in 1..Len(wf.issues) :
                wf.issues[j] = Issue("did not become active", tab.text)

\* ---------------------------------------------------------------------- C14
\* the ledger entries the navigation step committed
NavBugs ==
  SelectSeq(bugs, LAMBDA b : b.title \in {<<"Navigation timeout">>,
                                          <<"HTTP status on navigation">>})

\* C14: a navigation that raises commits exactly one Critical Navigation
\* bug; a response with status >= 400 commits exactly one Navigation bug,
\* Critical for status >= 500 and High otherwise; the navigation step itself
\* never aborts the run, which goes on to settle, and a run that no later
\* fault aborts passes every detector and workflow and writes the report.
C14_NavigationFailureRecorded ==
  /\ []("navigate" \in Range(trace) =>
          /\ Len(NavBugs) = (IF site.status = NoResponse \/ site.status >= 400
                               THEN 1 ELSE 0)
          /\ \A k \in 1..Len(NavBugs) :
               /\ NavBugs[k].category = "Navigation"
               /\ NavBugs[k].severity =
                    (IF site.status = NoResponse \/ site.status >= 500
                       THEN "Critical" ELSE "High")
               /\ NavBugs[k].title =
                    (IF site.status = NoResponse THEN <<"Navigation timeout">>
                     ELSE <<"HTTP status on navigation">>))
  /\ [][pc = "navigate" => (pc' = "settle" /\ exitCode' = 0 /\ faultBy' = "none")]_vars
  /\ []((pc = "exited" /\ faultBy = "none" /\ url # "") =>
          /\ reportWritten
          /\ Range(Workflows) \subseteq Range(trace)
          /\ Range(Detectors) \ {"checkSecurityHeaders"} \subseteq Range(trace))

C14_Witness ==
  /\ site.status = 500
  /\ Len(NavBugs) = 1
  /\ NavBugs[1].severity = "Critical"
  /\ pc = "exited"
  /\ exitCode = 0
  /\ reportWritten

\* ---------------------------------------------------------------------- C15
\* C15: without a target URL the run ends with a non-zero exit code before
\* the run context is built, the browser launched, a bug committed or the
\* report written; a run that ends without a fault reaching main's catch has
\* exit code 0, and every fault that reaches it gives a non-zero exit code.
C15_ExitCodes ==
  /\ url = "" =>
       /\ pc \in {"initGemini", "askUrl", "exited"}
       /\ browser = "none"
       /\ bugs = <<>>
       /\ ~reportWritten
       /\ "launch" \notin Range(trace)
       /\ pc = "exited" => exitCode # 0
  /\ faultBy = "none" => exitCode = 0
  /\ faultBy # "none" => (exitCode # 0 /\ pc = "exited")
  /\ (pc = "exited" /\ exitCode = 0) => (reportWritten /\ browser = "closed")

C15_Witness ==
  /\ url = ""
  /\ pc = "exited"
  /\ exitCode = 1
  /\ faultBy = "input"

\* ---------------------------------------------------------------------- C16
\* C16: whatever the ledger holds and in whatever order it was discovered,
\* every report written lists the severities in the order Critical, High,
\* Medium, Low: the rows of the summary table are in that order, and in the
\* bug-entries section, which holds the bugs of the ledger, no bug of a lower
\* severity comes before a bug of a higher severity.
C16_SeverityOrder ==
  \A r \in 1..Len(reports) :
    LET rows == reports[r].severityRows
        entries == reports[r].entries
    IN /\ [k \in 1..Len(rows) |-> rows[k].severity]
            = <<"Critical", "High", "Medium", "Low">>
       /\ \A a, b \in 1..Len(entries) :
            a < b => Rank(entries[a].severity) <= Rank(entries[b].severity)
       /\ Len(entries) = Len(bugs)
       /\ Range(entries) = Range(bugs)

C16_Witness ==
  /\ Len(reports) = 1
  /\ Len(bugs) = 2
  /\ bugs[1].severity = "Low"
  /\ bugs[2].severity = "Critical"
  /\ reports[1].entries = <<bugs[2], bugs[1]>>
  /\ reports[1].severityRows[1] = [severity |-> "Critical", count |-> 1]

\* ---------------------------------------------------------------------- C17
\* C17: two reports written over the same ledger, accumulators and workflow
\* results, for the same run, URL and scope, are the same text, with the
\* oracle enabled or not.
C17_ReportIdempotent ==
  Len(reports) = 2 => reports[1] = reports[2]

\* ---------------------------------------------------------------------- C18
\* C18: a step that writes a report sends no request to the oracle service
\* and leaves the ledger, the four accumulators and the workflow results as
\* they were.
C18_ReportOnlyReads ==
  [][reports' # reports =>
       /\ oracleContacted' = oracleContacted
       /\ bugs' = bugs
       /\ accVars' = accVars
       /\ workflowResults' = workflowResults]_vars

\* ---------------------------------------------------------------------- C19
\* C19: the ledger is append-only over the whole run: every step of a
\* detector, a workflow, the oracle loop or the report leaves a ledger that
\* begins with the ledger as it was before the step.
C19_LedgerAppendOnly ==
  [][/\ Len(bugs') >= Len(bugs)
     /\ SubSeq(bugs', 1, Len(bugs)) = bugs]_vars

C19_Witness ==
  /\ pc = "exited"
  /\ exitCode = 0
  /\ reportWritten
  /\ Len(reports) = 1
  /\ Len(bugs) >= 2
  /\ Rank(bugs[1].severity) > Rank(bugs[2].severity)
  /\ reports[1].entries # bugs

\* ---------------------------------------------------------------------- C20
\* the first 30 distinct absolute links of the page, and the lines of those
\* whose HEAD request answers 400 or more or raises
FirstThirty == FirstN(Unique(Absolute(anchors.hrefs)), 30)
BrokenOfFirstThirty ==
  LET dead == SelectSeq(FirstThirty, LAMBDA h : IsBroken(HeadOf(h)))
  IN [k \in 1..Len(dead) |-> BrokenLine(dead[k], HeadOf(dead[k]))]

\* C20 as claimed: the detector sends one HEAD request to each of the first
\* 30 distinct absolute links and to no other link, and when one of them is
\* broken it commits one bug whose details are exactly the lines of the
\* broken ones; with none broken it commits nothing.
C20_BrokenLinksAllListed ==
  bl.phase = "done" =>
    /\ bl.requests = FirstThirty
    /\ BrokenOfFirstThirty = <<>> => bugs = <<>>
    /\ BrokenOfFirstThirty # <<>> =>
         /\ Len(bugs) = 1
         /\ Len(bugs[1].details) = Len(BrokenOfFirstThirty)
         /\ Range(bugs[1].details) = Range(BrokenOfFirstThirty)

\* C20 as amended: the same, with the details being the lines of the first
\* 20 broken links in the order probed, the title counting all of them.
C20_BrokenLinksFirstTwenty ==
  bl.phase = "done" =>
    /\ bl.requests = FirstThirty
    /\ BrokenOfFirstThirty = <<>> => bugs = <<>>
    /\ BrokenOfFirstThirty # <<>> =>
         /\ Len(bugs) = 1
         /\ bugs[1].details =
              SubSeq(BrokenOfFirstThirty, 1,
                     IF Len(BrokenOfFirstThirty) < 20
                       THEN Len(BrokenOfFirstThirty) ELSE 20)
         /\ bugs[1].title = StringOf(Len(BrokenOfFirstThirty))
                              \o <<"broken / unreachable link(s)">>

C20_Witness ==
  /\ bl.phase = "done"
  /\ Len(Unique(Absolute(anchors.hrefs))) > 30
  /\ Len(anchors.hrefs) > Len(Unique(Absolute(anchors.hrefs)))
  /\ anchors.raises
  /\ Len(bl.requests) = 30
  /\ Len(bl.broken) > 20
  /\ Len(bugs) = 1
  /\ Len(bugs[1].details) = 20

\* ---------------------------------------------------------------------- C21
\* C21: on the host server, under any interleaving of start requests, cancel
\* requests and child-process events, at most one agent child process is
\* alive at any time, and a start request that finds a scan running is
\* answered 409.
AliveAgents == {id \in ScanIds : children[id].state = "alive"}

C21_OneAgentAlive ==
  /\ Cardinality(AliveAgents) <= 1
  /\ \A r \in 1..Len(posts) : posts[r].code = 409 => posts[r].scanId = 0

\* ---------------------------------------------------------------------- C30
\* C30: once the status of a scan has left 'running', no later event changes
\* it; a child close event after an accepted cancel never makes the
\* cancelled scan 'complete'.
C30_TerminalStatusFinal ==
  [][\A id \in 1..Len(scan) :
       scan[id].status # "running" => scan'[id].status = scan[id].status]_vars

\* ---------------------------------------------------------------------- C22
\* C22 as claimed: when the last action of the loop left the page on an
\* origin other than the base URL's, the page is back on the base URL before
\* the next PLAN query: the loop never plans or acts from an off-origin page.
C22_NeverPlansOffOrigin ==
  (pc \in {"plan", "act"} /\ turn.offSite) => page = "base"

\* C22 as amended: when the last action left the page on another origin and
\* the base URL parses, the loop has called page.goto(baseUrl) before the
\* next PLAN query; the next turn plans and acts from the base URL when that
\* navigation succeeded, and from the page as it was left when it failed or
\* was not attempted.
C22_ReturnAttempted ==
  (pc \in {"plan", "act"} /\ turn.offSite) =>
    /\ url = "https://site" => turn.returned \in {"ok", "failed"}
    /\ url # "https://site" => turn.returned = "none"
    /\ turn.returned = "ok" => page = "base"
    /\ turn.returned # "ok" => page = "other"

C22_Witness ==
  /\ pc = "act"
  /\ i = 1
  /\ turn.offSite
  /\ turn.returned = "ok"
  /\ page = "base"

\* ---------------------------------------------------------------------- C27
\* C27: the new console errors handed to the JUDGE query of a turn are
\* exactly the entries appended to consoleErrors between the snapshot taken
\* before the action and the end of the action, an entry with the text of an
\* earlier entry included.
C27_JudgeSeesDelta ==
  pc = "judge" =>
    /\ consoleErrors = turn.before \o turn.appended
    /\ turn.newErrors = turn.appended

\* ---------------------------------------------------------------------- C23
\* C23: every candidate the JUDGE query returned is committed, in order, as
\* an entry whose severity is the candidate's when it is one of Critical,
\* High, Medium, Low and Medium otherwise, whose category is the candidate's
\* when it is one of the eleven declared categories and Functional
\* otherwise, and whose title is the candidate's after the tag "[AI] ".
C23_JudgeCandidatesCoerced ==
  /\ Len(bugs) >= turn.first + Len(turn.candidates)
  /\ \A k \in 1..Len(turn.candidates) :
       LET cand == turn.candidates[k]
           entry == bugs[turn.first + k]
       IN /\ entry.title = <<"[AI] ", cand.title>>
          /\ entry.severity \in {"Critical", "High", "Medium", "Low"}
          /\ entry.severity =
               IF cand.severity \in {"Critical", "High", "Medium", "Low"}
                 THEN cand.severity ELSE "Medium"
          /\ entry.category \in
               {"Navigation", "Console", "Network", "Accessibility", "SEO",
                "Security", "Performance", "Layout", "Functional", "Content",
                "UX"}
          /\ entry.category =
               IF cand.category \in
                    {"Navigation", "Console", "Network", "Accessibility",
                     "SEO", "Security", "Performance", "Layout", "Functional",
                     "Content", "UX"}
                 THEN cand.category ELSE "Functional"

C23_Witness ==
  /\ turn.candidates = <<OddCandidate>>
  /\ turn.first = 1
  /\ Len(bugs) >= 2
  /\ bugs[1].severity = "High"
  /\ bugs[1].category = "UX"
  /\ bugs[2].severity = "Medium"
  /\ bugs[2].category = "Functional"

\* ---------------------------------------------------------------------- C24
\* the entries a step appends, and the detectors that keep one list of issues
Appended == SubSeq(bugs', Len(bugs) + 1, Len(bugs'))
DetectorPcs ==
  Range(Detectors) \cup {"checkConsoleErrors", "checkNetworkFailures"}
OneList ==
  Range(Detectors) \ {"checkSEO", "checkSecurityHeaders"}

Least(a, b) == IF a < b THEN a ELSE b

\* the original reading: one entry at most, carrying details
OneEntryWithDetails ==
  pc \in DetectorPcs =>
    /\ Len(bugs') <= Len(bugs) + 1
    /\ \A k \in 1..Len(Appended) : "details" \in DOMAIN Appended[k]

\* C24 as claimed: each detector invocation of the detector pass and of the
\* final aggregate pass appends at most one entry, and that entry's details
\* hold the issue strings.
C24_OneEntryPerDetector == [][OneEntryWithDetails]_vars

\* what the detectors do: one entry per non-empty list of issues
OneEntryPerList ==
  pc \in DetectorPcs =>
    /\ Len(bugs') >= Len(bugs)
    /\ SubSeq(bugs', 1, Len(bugs)) = bugs
    /\ pc \in OneList =>
         /\ Len(Appended) = IF pc \in site.issues THEN 1 ELSE 0
         /\ \A k \in 1..Len(Appended) :
              /\ "details" \in DOMAIN Appended[k]
              /\ Appended[k].details =
                   [n \in 1..site.each |-> [by |-> pc, class |-> 1, n |-> n]]
    /\ pc = "checkSEO" =>
         /\ Len(Appended) <= 6
         /\ Len(Appended) =
              IF pc \in site.issues THEN Least(site.classes, 6) ELSE 0
         /\ \A k \in 1..Len(Appended) : "details" \notin DOMAIN Appended[k]
    /\ pc = "checkSecurityHeaders" =>
         /\ Len(Appended) <= 2
         /\ Len(Appended) =
              IF pc \in site.issues /\ response # NoResponse
                THEN Least(site.classes, 2) ELSE 0
         /\ \A k \in 1..Len(Appended) :
              /\ "details" \in DOMAIN Appended[k]
              /\ Len(Appended[k].details) = site.each
    /\ pc = "checkConsoleErrors" =>
         /\ Len(Appended) =
              (IF consoleErrors # <<>> THEN 1 ELSE 0)
              + (IF pageErrors # <<>> THEN 1 ELSE 0)
              + (IF Len(consoleWarnings) > 10 THEN 1 ELSE 0)
         /\ \A k \in 1..Len(Appended) :
              /\ "details" \in DOMAIN Appended[k]
              /\ Appended[k].details # <<>>
    /\ pc = "checkNetworkFailures" =>
         /\ Len(Appended) <= 2
         /\ failedRequests = <<>> => Appended = <<>>
         /\ \A k \in 1..Len(Appended) :
              /\ "details" \in DOMAIN Appended[k]
              /\ Appended[k].details # <<>>

\* C24 as amended: a detector appends one entry per non-empty list of issues
\* it keeps and none when it found none.  The detectors with one list append
\* exactly one entry when they found an issue, with the issue strings as
\* details; checkSEO appends up to six entries, without details;
\* checkSecurityHeaders up to two, checkConsoleErrors up to three and
\* checkNetworkFailures up to two, each with details.
C24_OneEntryPerList == [][OneEntryPerList]_vars

C24_Witness ==
  /\ pc = "checkAccessibility"
  /\ site.classes = 2
  /\ site.each = 2
  /\ site.issues = {"checkSEO", "checkAccessibility"}
  /\ Len(bugs) = 2
  /\ bugs[1].title = <<"Missing page <title>">>
  /\ bugs[2].title = <<"Missing meta description">>

\* ---------------------------------------------------------------------- C25
\* the presses of the run so far that put focus on an element without outline
NoOutlineSeen ==
  \E n \in 1..kb.i :
    Focused(kb.ring, n) # Body /\ ~Focused(kb.ring, n).hasOutline

\* C25: the keyboard tester presses Tab exactly 15 times, and whenever focus
\* reached fewer than 3 distinct elements over those presses or a focused
\* element had outline style none, it has an issue and its WorkflowResult has
\* passed = false.
C25_KeyboardVerdict ==
  kb.phase = "done" =>
    /\ kb.i = 15
    /\ (UniqueFocused(kb.focusedElements) < 3 \/ NoOutlineSeen) =>
         /\ kb.issues # <<>>
         /\ workflowResults[Len(workflowResults)].passed = FALSE

\* ---------------------------------------------------------------------- C28
\* C28: each WorkflowResult's passed flag and error text depend only on the
\* anomalies observed on its own target: the result of a form on which
\* nothing was observed has passed = true, and every issue in a result's error
\* text is one of its own form.
C28_OwnAnomaliesOnly ==
  \A k \in 1..Len(workflowResults) :
    LET r == workflowResults[k]
    IN /\ FormIssuesOf(r.index) = <<>> => r.passed
       /\ \A j \in 1..Len(r.error) : r.error[j].about = r.index

\* ---------------------------------------------------------------------- C29
\* C29: in every run that launched the browser, the browser has been closed
\* when main is over, also when a fault reached main's catch.
C29_BrowserClosedAtExit ==
  (pc = "exited" /\ browser # "none") => browser = "closed"

\* ---------------------------------------------------------------------- C26
IsPrefix(s, t) == Len(s) <= Len(t) /\ SubSeq(t, 1, Len(s)) = s

AppendOnly ==
  /\ IsPrefix(consoleErrors, consoleErrors')
  /\ IsPrefix(consoleWarnings, consoleWarnings')
  /\ IsPrefix(pageErrors, pageErrors')
  /\ IsPrefix(failedRequests, failedRequests')

\* C26: the four accumulators are append-only for the whole run: no step of
\* the listeners, the detectors, the workflows, the final aggregate detectors
\* or the report removes or rewrites an entry, so no length ever decreases.
C26_AccumulatorsAppendOnly == [][AppendOnly]_vars

\* the run is over, the report written, after events of two kinds arrived
C26_Witness ==
  /\ pc = "exited"
  /\ reportWritten
  /\ Len(consoleErrors) = 2
  /\ Len(failedRequests) = 1
  /\ Len(bugs) >= 2

====
